---- MODULE Spec2Model ----
(***************************************************************************)
(* Railway exporter: the collection cycle (collector.rs), the shared       *)
(* state it publishes into (state.rs), the pull handlers of /metrics       *)
(* (handlers/metrics.rs) and the WebSocket handler (server.rs).            *)
(*                                                                         *)
(* Money is counted in micro-dollars (1e-6 USD) so that the f64 prices of  *)
(* pricing.rs become integers.                                             *)
(***************************************************************************)
EXTENDS Integers, Sequences, FiniteSets, TLC

\* ------------------------------------------------------------------ bounds

\* Collection cycles the scheduler starts.
MaxCycles == 2
\* Largest wall-clock second the model's clock reaches.
MaxTime == 1

\* ------------------------------------------------------------------ values

None == [tag |-> "None"]
Some(x) == [tag |-> "Some", v |-> x]

\* config.project_name / project.name of the one configured project.
ProjectName == "test-project"

\* The plan of the configuration (Config::new(.., Plan::Pro, ..)).
ConfigPlan == "pro"

Measurements == {"CPU_USAGE", "MEMORY_USAGE_GB", "DISK_USAGE_GB", "NETWORK_TX_GB"}

\* str::to_lowercase of a plan name.
to_lowercase(plan) == IF plan \in {"Pro", "PRO"} THEN "pro" ELSE plan

\* pricing::get_price, in micro-dollars per unit; the plan is matched in
\* lower case.
get_price(plan, measurement) ==
    CASE to_lowercase(plan) = "pro" /\ measurement = "CPU_USAGE" -> 231
      [] to_lowercase(plan) = "pro" /\ measurement = "MEMORY_USAGE_GB" -> 116
      [] to_lowercase(plan) # "pro" /\ measurement = "CPU_USAGE" -> 463
      [] to_lowercase(plan) # "pro" /\ measurement = "MEMORY_USAGE_GB" -> 231
      [] measurement = "DISK_USAGE_GB" -> 21
      [] measurement = "NETWORK_TX_GB" -> 100000
      [] OTHER -> 0

\* PricingConfig::new: the plan in lower case, no overrides.
PricingNew(plan) == [plan |-> to_lowercase(plan), overrides |-> <<>>]

\* PricingConfig: the plan and the overrides set by set_price (none here).
ConfigPricing == [plan |-> ConfigPlan, overrides |-> <<>>]

\* Mutant of PricingGetPrice: the overrides are not looked at.
PricingGetPrice_NoOverride(pricing, measurement) ==
    get_price(pricing.plan, measurement)

\* PricingConfig::get_price: the override when there is one, else the plan's.
PricingGetPrice(pricing, measurement) ==
    IF measurement \in DOMAIN pricing.overrides
    THEN pricing.overrides[measurement]
    ELSE get_price(pricing.plan, measurement)

\* measurements.get(k).unwrap_or(&0.0)
MGet(measurements, k) == IF k \in DOMAIN measurements THEN measurements[k] ELSE 0

\* ApiError and its Display text (e.to_string()).
ApiErrors == {[kind |-> "RequestError", msg |-> "timeout"],
              [kind |-> "GraphQLError", msg |-> "Not Authorized"],
              [kind |-> "ParseError", msg |-> "eof"],
              [kind |-> "NoData", msg |-> ""]}

ErrToString(e) ==
    CASE e.kind = "RequestError" -> <<"Request error: ", e.msg>>
      [] e.kind = "GraphQLError" -> <<"GraphQL error: ", e.msg>>
      [] e.kind = "ParseError" -> <<"Parse error: ", e.msg>>
      [] OTHER -> <<"No data in response">>

\* ------------------------------------------------------------------ inputs

\* A String is the sequence of its pieces; String::new() is the empty sequence.
EmptyString == <<>>

\* Answers of get_project: the service nodes (id, name, icon) of the project,
\* icon being node.icon.clone().unwrap_or_default().
Node(id, name) == [id |-> id, name |-> name, icon |-> EmptyString]
ProjectInputs == {<<Node("svc1", "api")>>,
                  <<Node("svc1", "api"), Node("svc2", "web")>>}

\* Answers of get_usage: service id -> (measurement -> value).
m1 == [m \in {"CPU_USAGE"} |-> 10]
m2 == [m \in {"CPU_USAGE", "MEMORY_USAGE_GB"} |-> IF m = "CPU_USAGE" THEN 10 ELSE 5]
UsageInputs == {[s \in {"svc1"} |-> m1],
                [s \in {"svc1", "svc2"} |-> IF s = "svc1" THEN m2 ELSE m1]}

\* Answers of get_estimated_usage: measurement -> estimated value.
EstimateInputs == {<<>>, [m \in {"CPU_USAGE"} |-> 30]}

\* --------------------------------------------------------- pure operators

\* f with key k set to v (HashMap::insert, GaugeVec::with_label_values().set()).
MapPut(f, k, v) == [x \in DOMAIN f \cup {k} |-> IF x = k THEN v ELSE f[x]]

\* The orders in which a map with key set S can be iterated.
Perms(S) == {f \in [1..Cardinality(S) -> S] : \A x \in S : \E i \in DOMAIN f : f[i] = x}

\* The service map id -> (name, icon, group) built from the project's edges.
\* No service_groups are configured (Config::new), so every group is
\* "ungrouped". This is the map of a project whose nodes carry no icon, which
\* every icon mode resolves to the empty string without a call of the cache.
RECURSIVE ServicesMap(_)
ServicesMap(edges) ==
    IF edges = <<>> THEN <<>>
    ELSE LET n == edges[Len(edges)]
             rest == ServicesMap(SubSeq(edges, 1, Len(edges) - 1))
         IN MapPut(rest, n.id, [name |-> n.name, icon |-> n.icon, group |-> "ungrouped"])

\* cost = cpu * price(CPU_USAGE) + mem * price(MEMORY_USAGE_GB) + ..., the
\* prices being those of the PricingConfig p.
ServiceCostWith(p, measurements) ==
      MGet(measurements, "CPU_USAGE") * PricingGetPrice(p, "CPU_USAGE")
    + MGet(measurements, "MEMORY_USAGE_GB") * PricingGetPrice(p, "MEMORY_USAGE_GB")
    + MGet(measurements, "DISK_USAGE_GB") * PricingGetPrice(p, "DISK_USAGE_GB")
    + MGet(measurements, "NETWORK_TX_GB") * PricingGetPrice(p, "NETWORK_TX_GB")

\* The cost of a service under config.pricing.
ServiceCost(measurements) == ServiceCostWith(ConfigPricing, measurements)

\* Mutant of ServiceEntry: no entry is marked deleted.
ServiceEntry_NeverDeleted(sid, measurements, services) ==
    LET svc == IF sid \in DOMAIN services THEN services[sid]
               ELSE [name |-> sid, icon |-> EmptyString, group |-> "ungrouped"]
    IN [id |-> sid, name |-> svc.name, icon |-> svc.icon, group |-> svc.group,
        cpu_usage |-> MGet(measurements, "CPU_USAGE"),
        memory_usage |-> MGet(measurements, "MEMORY_USAGE_GB"),
        disk_usage |-> MGet(measurements, "DISK_USAGE_GB"),
        network_tx |-> MGet(measurements, "NETWORK_TX_GB"),
        cost_usd |-> ServiceCost(measurements),
        estimated_monthly_usd |-> 0,
        is_deleted |-> FALSE]

\* One ServiceData of the loop over the usage map.
ServiceEntry(sid, measurements, services) ==
    LET svc == IF sid \in DOMAIN services THEN services[sid]
               ELSE [name |-> sid, icon |-> EmptyString, group |-> "ungrouped"]
    IN [id |-> sid, name |-> svc.name, icon |-> svc.icon, group |-> svc.group,
        cpu_usage |-> MGet(measurements, "CPU_USAGE"),
        memory_usage |-> MGet(measurements, "MEMORY_USAGE_GB"),
        disk_usage |-> MGet(measurements, "DISK_USAGE_GB"),
        network_tx |-> MGet(measurements, "NETWORK_TX_GB"),
        cost_usd |-> ServiceCost(measurements),
        estimated_monthly_usd |-> 0,
        is_deleted |-> sid \notin DOMAIN services]

\* Mutant of ServicesData: the loop skips a service id that the project's
\* service list does not hold.
ServicesData_ListedOnly(usage, order, services) ==
    LET listed == SelectSeq(order, LAMBDA sid : sid \in DOMAIN services)
    IN [i \in DOMAIN listed |-> ServiceEntry(listed[i], usage[listed[i]], services)]

\* services_data after the loop, the usage map iterated in `order`.
ServicesData(usage, order, services) ==
    [i \in DOMAIN order |-> ServiceEntry(order[i], usage[order[i]], services)]

\* total_cost: the costs accumulated by the loop.
RECURSIVE SumCost(_)
SumCost(data) ==
    IF data = <<>> THEN 0
    ELSE SumCost(SubSeq(data, 1, Len(data) - 1)) + data[Len(data)].cost_usd

\* The label values of a service's gauges (the project label is constant).
Labels(d) == [service |-> d.name, icon |-> d.icon, group |-> d.group]

\* cpu_usage, memory_usage, disk_usage, network_tx and service_cost set for
\* every entry of the loop; series set by earlier cycles stay.
RECURSIVE SetServiceGauges(_, _)
SetServiceGauges(g, data) ==
    IF data = <<>> THEN g
    ELSE LET d == data[Len(data)]
         IN MapPut(SetServiceGauges(g, SubSeq(data, 1, Len(data) - 1)), Labels(d),
                   [cpu_usage |-> d.cpu_usage, memory_usage |-> d.memory_usage,
                    disk_usage |-> d.disk_usage, network_tx |-> d.network_tx,
                    service_cost |-> d.cost_usd])

\* est_monthly: the sum over the estimated map of value * price.
RECURSIVE SumEstimate(_, _)
SumEstimate(estimated, keys) ==
    IF keys = {} THEN 0
    ELSE LET k == CHOOSE x \in keys : TRUE
         IN estimated[k] * PricingGetPrice(ConfigPricing, k)
            + SumEstimate(estimated, keys \ {k})

EstMonthly(estimated) == SumEstimate(estimated, DOMAIN estimated)

\* Mutant of Distribute: the guard total_cost > 0.0 is missing; the f64
\* division by zero gives NaN, written -1.
Distribute_NoGuard(data, total_cost, est_monthly) ==
    [i \in DOMAIN data |->
        [data[i] EXCEPT !.estimated_monthly_usd =
                            IF total_cost = 0 THEN -1
                            ELSE (est_monthly * data[i].cost_usd) \div total_cost]]

\* if total_cost > 0.0 { estimated_monthly_usd = est_monthly * (cost / total) }
Distribute(data, total_cost, est_monthly) ==
    IF total_cost > 0
    THEN [i \in DOMAIN data |->
            [data[i] EXCEPT !.estimated_monthly_usd =
                                (est_monthly * data[i].cost_usd) \div total_cost]]
    ELSE data

\* service_estimated_monthly set for every service (only when total_cost > 0).
RECURSIVE SetEstimateGauges(_, _)
SetEstimateGauges(g, data) ==
    IF data = <<>> THEN g
    ELSE LET d == data[Len(data)]
         IN MapPut(SetEstimateGauges(g, SubSeq(data, 1, Len(data) - 1)), Labels(d),
                   d.estimated_monthly_usd)

\* serde_json::to_string(&WsMessage::Metrics(m)): {"type":"metrics","data":m}
WsMetrics(m) == [type |-> "metrics", data |-> m]

\* serde_json::to_string(&WsMessage::Status(..)): {"type":"status","data":..}
WsStatusMsg(api, clients) ==
    [type |-> "status", data |-> [api |-> api, ws_clients |-> clients]]

\* -------------------------------------------------------------- icon values

\* Service names; urlencoding::encode leaves unreserved characters as they
\* are and writes a space as %20.
Names == {"api", "web", "my api"}
UrlEncode(name) == IF name = "my api" THEN "my%20api" ELSE name
UrlDecode(seg) == IF seg = "my%20api" THEN "my api" ELSE seg

\* Icon references of the project's nodes: none, an inline data URL, a URL.
DataRef == <<"data:", "image/png", ";base64,", "QQ==">>
UrlRef == <<"https://", "cdn.example/icon.png">>
IconRefs == {EmptyString, DataRef, UrlRef}

\* icon_url.is_empty() and icon_url.starts_with("data:").
is_empty(s) == s = EmptyString
starts_with_data(s) == Len(s) >= 1 /\ s[1] = "data:"

\* A reference that is fetched: neither empty nor a data URL.
IsUrlRef(s) == ~is_empty(s) /\ ~starts_with_data(s)

\* CachedIcon values a fetch can answer, and STANDARD.encode of their bytes.
Icons == {[content_type |-> "image/png", data |-> "b1"],
          [content_type |-> "image/svg+xml", data |-> "b2"]}
Base64(data) == IF data = "b1" THEN "YjE=" ELSE "YjI="

\* CachedIcon::to_data_url: format!("data:{};base64,{}", content_type, base64).
to_data_url(icon) == <<"data:", icon.content_type, ";base64,", Base64(icon.data)>>

\* The ways fetch_icon answers Err: the send fails (transport error or the
\* client's 5 s timeout), the status is not 2xx, the body cannot be read.
FetchErrors == {"HTTP error", "HTTP 404", "Body read error"}

\* default_icon_cache_max_count.
DefaultMaxCount == 200

\* IconCacheConfig::default(): enabled, 200 icons, IconMode::Base64.
DefaultIconConfig == [enabled |-> TRUE, mode |-> "base64", max_count |-> DefaultMaxCount]

\* Largest icon_cache.max_count of the configurations tried.
MaxCapacity == 2

\* The LruCache is the sequence of its entries, least recently used first.
LruKeys(c) == {c[i].key : i \in DOMAIN c}
LruIndex(c, k) == CHOOSE i \in DOMAIN c : c[i].key = k
LruRemove(c, i) == SubSeq(c, 1, i - 1) \o SubSeq(c, i + 1, Len(c))

\* LruCache::contains: no change of the order.
LruContains(c, k) == k \in LruKeys(c)

\* LruCache::peek of a present key.
LruValue(c, k) == c[LruIndex(c, k)].icon

\* LruCache::get: a present key becomes the most recently used.
LruGet(c, k) ==
    IF LruContains(c, k)
    THEN Append(LruRemove(c, LruIndex(c, k)), c[LruIndex(c, k)])
    ELSE c

\* Mutant of LruPut: a new key is stored without an eviction.
LruPut_NoEviction(c, k, v, cap) ==
    IF LruContains(c, k)
    THEN Append(LruRemove(c, LruIndex(c, k)), [key |-> k, icon |-> v])
    ELSE Append(c, [key |-> k, icon |-> v])

\* LruCache::put: a present key gets the new value and becomes the most
\* recently used; a new key evicts the least recently used one when the cache
\* holds cap entries.
LruPut(c, k, v, cap) ==
    IF LruContains(c, k)
    THEN Append(LruRemove(c, LruIndex(c, k)), [key |-> k, icon |-> v])
    ELSE IF Len(c) >= cap
         THEN Append(Tail(c), [key |-> k, icon |-> v])
         ELSE Append(c, [key |-> k, icon |-> v])

\* Callers of the IconCache that run concurrently.
Callers == {"t1", "t2"}

\* A caller with no call in flight.
NoCall == [op |-> "none", name |-> "", ref |-> EmptyString]

\* ------------------------------------------------------------------- state

VARIABLES
    api_status,      \* AppState.api_status: ApiStatusData
    metrics_json,    \* AppState.metrics_json: Option<MetricsJson>
    gauges,          \* AppState.metrics: the Prometheus gauge vectors
    now,             \* the wall clock read by Utc::now(), in seconds
    pc,              \* the Collector's position in collect_metrics
    cyc,             \* the locals of the running collect_metrics call
    cycles,          \* collect_metrics calls started so far
    hist,            \* history: the state at the start of the last call, and its result
    http_resp,       \* the last response served to a GET /metrics request
    ws_broadcast,    \* AppState.ws_broadcast: the messages sent on the channel
    ws_clients,      \* AppState.ws_clients: AtomicU32
    api_readers,     \* tasks holding a read guard of api_status
    json_readers,    \* tasks holding a read guard of metrics_json
    sub,             \* the WebSocket handler task of each connection slot
    icon_config,     \* Config.icon_cache: enabled, mode, max_count
    icon_cache,      \* IconCache.cache: the LruCache, least recently used first
    call,            \* the get_icon / ensure_cached calls in flight, by caller
    icon_ret,        \* what the last completed IconCache call returned
    icon_hist,       \* history: per name, the data URL of the first fetch stored
    icon_access,     \* history: the cached names, the least recently accessed first
    today,           \* the date Utc::now() reads: year, month, day
    billing,         \* the billing period computed from today
    service_groups,  \* Config.service_groups, as the map is iterated
    grouped,         \* the last service name given a group, and the group
    pricing,         \* Config.pricing: PricingConfig
    priced           \* the last call of PricingConfig or cost computed

vars == <<api_status, metrics_json, gauges, now, pc, cyc, cycles, hist,
          http_resp, ws_broadcast, ws_clients, api_readers,
          json_readers, sub, icon_config, icon_cache, call, icon_ret,
          icon_hist, icon_access, today, billing,
          service_groups, grouped, pricing, priced>>

colVars == <<api_status, metrics_json, gauges, pc, cyc, cycles, hist, ws_broadcast>>
pullVars == <<http_resp>>
wsVars == <<ws_clients, api_readers, json_readers, sub>>
iconVars == <<icon_config, icon_cache, call, icon_ret, icon_hist, icon_access>>
calVars == <<today, billing>>
cfgVars == <<service_groups, grouped, pricing, priced>>

NoLocals == [err |-> None, project |-> <<>>, services_raw |-> <<>>,
             services |-> <<>>, services_data |-> <<>>,
             total_cost |-> 0, snapshot |-> None]

NoGauges == [api_up |-> None, service |-> <<>>, service_estimated_monthly |-> <<>>,
             current_usage |-> None, estimated_monthly |-> None,
             last_scrape_timestamp |-> None]

NoHist == [result |-> "none", site |-> "none", err |-> None,
           pre_json |-> None, pre_total |-> 0, pre_failed |-> 0]

\* Connection slots of WebSocket clients.
Subs == {"c1", "c2"}

\* Text messages a client takes before its socket stops accepting more.
MaxRecv == 2

\* A slot with no connection: no handler task runs. rx is the handler's
\* broadcast Receiver (0: none, else the position of its next message), out
\* the message its pending ws_sender.send carries, received what the client
\* got on this connection, exit how the last handler of the slot ended,
\* had_data whether a snapshot was stored when the handshake completed.
NoSub == [pc |-> "closed", rx |-> 0, out |-> None, received |-> <<>>,
          exit |-> "none", had_data |-> FALSE]

\* The capacity of the broadcast channel.
BroadcastCapacity == 16

\* The handlers holding a Receiver of the channel.
Receivers == {s \in Subs : sub[s].rx > 0}

\* broadcast::Sender::send: Err (nothing queued) when there is no receiver.
BroadcastSend(chan, msg) == IF Receivers = {} THEN chan ELSE Append(chan, msg)

\* AppState::new and ApiStatusData::default: the state every run starts in,
\* whatever its configuration and its date.
InitState ==
    /\ api_status = [last_success |-> None, last_error |-> None,
                     total_scrapes |-> 0, failed_scrapes |-> 0]
    /\ metrics_json = None
    /\ gauges = NoGauges
    /\ now = 0
    /\ pc = "idle"
    /\ cyc = NoLocals
    /\ cycles = 0
    /\ hist = NoHist
    /\ http_resp = None
    /\ ws_broadcast = <<>>
    /\ ws_clients = 0
    /\ api_readers = {}
    /\ json_readers = {}
    /\ sub = [s \in Subs |-> NoSub]
    /\ icon_cache = <<>>
    /\ call = [t \in Callers |-> NoCall]
    /\ icon_ret = None
    /\ icon_hist = [n \in Names |-> None]
    /\ icon_access = <<>>
    /\ billing = None
    /\ grouped = None
    /\ priced = None

\* The date of second 0 of the clock.
EpochDate == [year |-> 1970, month |-> 1, day |-> 1]

\* The run of Config::new: the default icon cache configuration.
Init ==
    /\ InitState
    /\ icon_config = DefaultIconConfig
    /\ today = EpochDate
    /\ service_groups = <<>>
    /\ pricing = ConfigPricing

\* ------------------------------------------------------------ the Collector

\* The interval of main's background task fires: collect_metrics is called.
\* Its first await is api_status.write(). At most maxCycles cycles are run.
StartWithin(maxCycles) ==
    /\ pc = "idle"
    /\ cycles < maxCycles
    /\ cycles' = cycles + 1
    /\ pc' = "lock_total"
    /\ cyc' = NoLocals
    /\ hist' = [result |-> "running", site |-> "none", err |-> None,
                pre_json |-> metrics_json,
                pre_total |-> api_status.total_scrapes,
                pre_failed |-> api_status.failed_scrapes]
    /\ UNCHANGED <<api_status, metrics_json, gauges, ws_broadcast, now>>
    /\ UNCHANGED <<pullVars, iconVars, calVars, cfgVars, wsVars>>

Start == StartWithin(MaxCycles)

\* status.total_scrapes += 1 under the write guard; then get_project is awaited.
IncrTotal ==
    /\ pc = "lock_total"
    /\ api_readers = {}
    /\ api_status' = [api_status EXCEPT !.total_scrapes = @ + 1]
    /\ pc' = "fetch_project"
    /\ UNCHANGED <<metrics_json, gauges, cyc, cycles, hist, ws_broadcast, now>>
    /\ UNCHANGED <<pullVars, iconVars, calVars, cfgVars, wsVars>>

\* get_project answers Ok(p), no node of p carrying an icon: api_up = 1 and
\* the service map is built; then get_usage is awaited.
ProjectOk(p) ==
    /\ pc = "fetch_project"
    /\ gauges' = [gauges EXCEPT !.api_up = Some(1)]
    /\ cyc' = [cyc EXCEPT !.project = p, !.services = ServicesMap(p)]
    /\ pc' = "fetch_usage"
    /\ UNCHANGED <<api_status, metrics_json, cycles, hist, ws_broadcast, now>>
    /\ UNCHANGED <<pullVars, iconVars, calVars, cfgVars, wsVars>>

\* Mutant of ProjectErr: the cycle goes on to get_usage after the failure.
ProjectErr_FetchesUsage(e) ==
    /\ pc = "fetch_project"
    /\ gauges' = [gauges EXCEPT !.api_up = Some(0)]
    /\ cyc' = [cyc EXCEPT !.err = Some(e)]
    /\ pc' = "fetch_usage"
    /\ UNCHANGED <<api_status, metrics_json, cycles, hist, ws_broadcast, now>>
    /\ UNCHANGED <<pullVars, iconVars, calVars, cfgVars, wsVars>>

\* get_project answers Err(e): api_up = 0, then api_status.write() is awaited.
ProjectErr(e) ==
    /\ pc = "fetch_project"
    /\ gauges' = [gauges EXCEPT !.api_up = Some(0)]
    /\ cyc' = [cyc EXCEPT !.err = Some(e)]
    /\ pc' = "lock_failed"
    /\ UNCHANGED <<api_status, metrics_json, cycles, hist, ws_broadcast, now>>
    /\ UNCHANGED <<pullVars, iconVars, calVars, cfgVars, wsVars>>

\* Mutant of RecordFailure: the failure also clears last_success.
RecordFailure_ClearsSuccess ==
    /\ pc = "lock_failed"
    /\ api_readers = {}
    /\ api_status' = [api_status EXCEPT !.failed_scrapes = @ + 1,
                                        !.last_error = Some(ErrToString(cyc.err.v)),
                                        !.last_success = None]
    /\ hist' = [hist EXCEPT !.result = "err", !.site = "project", !.err = cyc.err]
    /\ pc' = "idle"
    /\ cyc' = NoLocals
    /\ UNCHANGED <<metrics_json, gauges, cycles, ws_broadcast, now>>
    /\ UNCHANGED <<pullVars, iconVars, calVars, cfgVars, wsVars>>

\* failed_scrapes += 1 and last_error = Some(e.to_string()) under the write
\* guard; return Err(e).
RecordFailure ==
    /\ pc = "lock_failed"
    /\ api_readers = {}
    /\ api_status' = [api_status EXCEPT !.failed_scrapes = @ + 1,
                                        !.last_error = Some(ErrToString(cyc.err.v))]
    /\ hist' = [hist EXCEPT !.result = "err", !.site = "project", !.err = cyc.err]
    /\ pc' = "idle"
    /\ cyc' = NoLocals
    /\ UNCHANGED <<metrics_json, gauges, cycles, ws_broadcast, now>>
    /\ UNCHANGED <<pullVars, iconVars, calVars, cfgVars, wsVars>>

\* get_usage answers Ok(usage): the loop over the usage map (in the map's
\* iteration order) sets the per-service gauges and builds services_data;
\* then get_estimated_usage is awaited.
UsageOk(usage, order) ==
    /\ pc = "fetch_usage"
    /\ LET data == ServicesData(usage, order, cyc.services)
       IN /\ gauges' = [gauges EXCEPT !.service = SetServiceGauges(@, data)]
          /\ cyc' = [cyc EXCEPT !.services_data = data, !.total_cost = SumCost(data)]
    /\ pc' = "fetch_estimate"
    /\ UNCHANGED <<api_status, metrics_json, cycles, hist, ws_broadcast, now>>
    /\ UNCHANGED <<pullVars, iconVars, calVars, cfgVars, wsVars>>

\* get_usage answers Err(e): the ? operator returns Err(e) at once.
UsageErr(e) ==
    /\ pc = "fetch_usage"
    /\ hist' = [hist EXCEPT !.result = "err", !.site = "usage", !.err = Some(e)]
    /\ pc' = "idle"
    /\ cyc' = NoLocals
    /\ UNCHANGED <<api_status, metrics_json, gauges, cycles, ws_broadcast, now>>
    /\ UNCHANGED <<pullVars, iconVars, calVars, cfgVars, wsVars>>

\* get_estimated_usage answers Ok(estimated): the estimate is distributed,
\* the project gauges are set, the clock is read and the MetricsJson is built;
\* then metrics_json.write() is awaited.
EstimateOk(estimated) ==
    /\ pc = "fetch_estimate"
    /\ LET est_monthly == EstMonthly(estimated)
           data == Distribute(cyc.services_data, cyc.total_cost, est_monthly)
           snap == [project |-> [name |-> ProjectName,
                                 current_usage_usd |-> cyc.total_cost,
                                 estimated_monthly_usd |-> est_monthly],
                    services |-> data,
                    scrape_timestamp |-> now]
       IN /\ gauges' = [gauges EXCEPT
                          !.service_estimated_monthly =
                              IF cyc.total_cost > 0 THEN SetEstimateGauges(@, data) ELSE @,
                          !.current_usage = Some(cyc.total_cost),
                          !.estimated_monthly = Some(est_monthly),
                          !.last_scrape_timestamp = Some(now)]
          /\ cyc' = [cyc EXCEPT !.services_data = data, !.snapshot = Some(snap)]
    /\ pc' = "lock_json"
    /\ UNCHANGED <<api_status, metrics_json, cycles, hist, ws_broadcast, now>>
    /\ UNCHANGED <<pullVars, iconVars, calVars, cfgVars, wsVars>>

\* Mutant of EstimateErr: the failing cycle drops the stored snapshot.
EstimateErr_DropsSnapshot(e) ==
    /\ pc = "fetch_estimate"
    /\ hist' = [hist EXCEPT !.result = "err", !.site = "estimate", !.err = Some(e)]
    /\ pc' = "idle"
    /\ cyc' = NoLocals
    /\ metrics_json' = None
    /\ UNCHANGED <<api_status, gauges, cycles, ws_broadcast, now>>
    /\ UNCHANGED <<pullVars, iconVars, calVars, cfgVars, wsVars>>

\* get_estimated_usage answers Err(e): the ? operator returns Err(e) at once.
EstimateErr(e) ==
    /\ pc = "fetch_estimate"
    /\ hist' = [hist EXCEPT !.result = "err", !.site = "estimate", !.err = Some(e)]
    /\ pc' = "idle"
    /\ cyc' = NoLocals
    /\ UNCHANGED <<api_status, metrics_json, gauges, cycles, ws_broadcast, now>>
    /\ UNCHANGED <<pullVars, iconVars, calVars, cfgVars, wsVars>>

\* Mutant of StoreSnapshot: the fields are assigned one by one and the
\* project summary of a snapshot already stored is kept.
StoreSnapshot_FieldByField ==
    /\ pc = "lock_json"
    /\ json_readers = {}
    /\ metrics_json' = IF metrics_json.tag = "Some"
                       THEN Some([cyc.snapshot.v EXCEPT !.project = metrics_json.v.project])
                       ELSE cyc.snapshot
    /\ pc' = "broadcast"
    /\ UNCHANGED <<api_status, gauges, cyc, cycles, hist, ws_broadcast, now>>
    /\ UNCHANGED <<pullVars, iconVars, calVars, cfgVars, wsVars>>

\* Mutant of StoreSnapshot: the snapshot is stored with the write guard of
\* api_status taken as well, after the one of metrics_json is asked for.
StoreSnapshot_UnderApiGuard ==
    /\ pc = "lock_json"
    /\ json_readers = {}
    /\ api_readers = {}
    /\ metrics_json' = cyc.snapshot
    /\ pc' = "broadcast"
    /\ UNCHANGED <<api_status, gauges, cyc, cycles, hist, ws_broadcast, now>>
    /\ UNCHANGED <<pullVars, iconVars, calVars, cfgVars, wsVars>>

\* *json_lock = Some(metrics_json.clone()) under the write guard.
StoreSnapshot ==
    /\ pc = "lock_json"
    /\ json_readers = {}
    /\ metrics_json' = cyc.snapshot
    /\ pc' = "broadcast"
    /\ UNCHANGED <<api_status, gauges, cyc, cycles, hist, ws_broadcast, now>>
    /\ UNCHANGED <<pullVars, iconVars, calVars, cfgVars, wsVars>>

\* state.ws_broadcast.send(json_str) of WsMessage::Metrics(metrics_json);
\* then api_status.write() is awaited.
Broadcast ==
    /\ pc = "broadcast"
    /\ ws_broadcast' = BroadcastSend(ws_broadcast, WsMetrics(cyc.snapshot.v))
    /\ pc' = "lock_success"
    /\ UNCHANGED <<api_status, metrics_json, gauges, cyc, cycles, hist, now>>
    /\ UNCHANGED <<pullVars, iconVars, calVars, cfgVars, wsVars>>

\* Mutant of RecordSuccess: last_error is left as it was.
RecordSuccess_KeepsError ==
    /\ pc = "lock_success"
    /\ api_readers = {}
    /\ api_status' = [api_status EXCEPT
                          !.last_success = Some(cyc.snapshot.v.scrape_timestamp)]
    /\ hist' = [hist EXCEPT !.result = "ok", !.site = "none"]
    /\ pc' = "idle"
    /\ cyc' = NoLocals
    /\ UNCHANGED <<metrics_json, gauges, cycles, ws_broadcast, now>>
    /\ UNCHANGED <<pullVars, iconVars, calVars, cfgVars, wsVars>>

\* status.last_success = Some(timestamp); status.last_error = None; Ok(()).
RecordSuccess ==
    /\ pc = "lock_success"
    /\ api_readers = {}
    /\ api_status' = [api_status EXCEPT
                          !.last_success = Some(cyc.snapshot.v.scrape_timestamp),
                          !.last_error = None]
    /\ hist' = [hist EXCEPT !.result = "ok", !.site = "none"]
    /\ pc' = "idle"
    /\ cyc' = NoLocals
    /\ UNCHANGED <<metrics_json, gauges, cycles, ws_broadcast, now>>
    /\ UNCHANGED <<pullVars, iconVars, calVars, cfgVars, wsVars>>

CollectorNext ==
    \/ Start
    \/ IncrTotal
    \/ \E p \in ProjectInputs : ProjectOk(p)
    \/ \E e \in ApiErrors : ProjectErr(e)
    \/ RecordFailure
    \/ \E u \in UsageInputs : \E order \in Perms(DOMAIN u) : UsageOk(u, order)
    \/ \E e \in ApiErrors : UsageErr(e)
    \/ \E est \in EstimateInputs : EstimateOk(est)
    \/ \E e \in ApiErrors : EstimateErr(e)
    \/ StoreSnapshot
    \/ Broadcast
    \/ RecordSuccess

\* ------------------------------------------------------------------ clock

\* A second passes on the wall clock.
ClockTick ==
    /\ now < MaxTime
    /\ now' = now + 1
    /\ UNCHANGED <<colVars, pullVars, iconVars, calVars, cfgVars, wsVars>>

\* The wall clock is set back (Utc::now() reads the system's real-time clock,
\* which is not monotonic).
ClockStepBack ==
    /\ now > 0
    /\ now' = now - 1
    /\ UNCHANGED <<colVars, pullVars, iconVars, calVars, cfgVars, wsVars>>

\* ---------------------------------------------------------- pull handlers

\* Metrics::encode: the text of every series of the registry.
Encode(g) == g

\* handle_prometheus: the gauges are encoded as they are at this moment.
handle_prometheus ==
    /\ http_resp' = Some([format |-> "prometheus", body |-> Encode(gauges)])
    /\ UNCHANGED <<colVars, now, wsVars, iconVars, calVars, cfgVars>>

\* Mutant of JsonBody: without a snapshot an empty one is served.
JsonBody_EmptySnapshot(json) ==
    IF json.tag = "Some" THEN [snapshot |-> json.v]
    ELSE [snapshot |-> [project |-> [name |-> ProjectName, current_usage_usd |-> 0,
                                     estimated_monthly_usd |-> 0],
                        services |-> <<>>, scrape_timestamp |-> 0]]

\* handle_json: the snapshot under a read guard, or the "No data yet" object.
JsonBody(json) == IF json.tag = "Some" THEN [snapshot |-> json.v]
                  ELSE [error |-> "No data yet"]

handle_json ==
    /\ pc # "lock_json"
    /\ http_resp' = Some([format |-> "json", body |-> JsonBody(metrics_json)])
    /\ UNCHANGED <<colVars, now, wsVars, iconVars, calVars, cfgVars>>

Next ==
    \/ CollectorNext
    \/ ClockTick
    \/ ClockStepBack
    \/ handle_prometheus
    \/ handle_json

Spec == Init /\ [][Next]_vars

\* ------------------------------------------------------- WebSocket handler

\* The positions at which the Collector awaits api_status.write(): tokio's
\* RwLock is fair, a queued writer makes later read() calls wait.
ApiWriterQueued == pc \in {"lock_total", "lock_failed", "lock_success"}
JsonWriterQueued == pc = "lock_json"

\* AppState::ws_client_connect: fetch_add(1).
ws_client_connect(n) == n + 1

\* AppState::ws_client_disconnect: fetch_sub(1) on an AtomicU32, which wraps
\* from 0 to 4294967295 (written -1 here).
ws_client_disconnect(n) == IF n = 0 THEN -1 ELSE n - 1

\* What the client's log keeps of a message: a metrics message whole, a
\* status message by its type.
Logged(msg) == IF msg.type = "status" THEN [type |-> "status"] ELSE msg

\* build_status: the api status under the read guard and ws_client_count().
build_status == WsStatusMsg(api_status, ws_clients)

\* Mutant of Disconnect: the ending handler's read guards are not released.
Disconnect_KeepsGuards(s, how) ==
    /\ ws_clients' = ws_client_disconnect(ws_clients)
    /\ UNCHANGED <<api_readers, json_readers>>
    /\ sub' = [sub EXCEPT ![s] = [NoSub EXCEPT !.exit = how]]

\* The handler of slot s ends through ws_client_disconnect and a return or
\* break: its guards and its Receiver are dropped.
Disconnect(s, how) ==
    /\ ws_clients' = ws_client_disconnect(ws_clients)
    /\ api_readers' = api_readers \ {s}
    /\ json_readers' = json_readers \ {s}
    /\ sub' = [sub EXCEPT ![s] = [NoSub EXCEPT !.exit = how]]

\* A client connects to /ws: handle_websocket awaits accept_async.
Accept(s) ==
    /\ sub[s].pc = "closed"
    /\ sub' = [sub EXCEPT ![s] = [NoSub EXCEPT !.pc = "handshake"]]
    /\ UNCHANGED <<colVars, now, pullVars, iconVars, calVars, cfgVars, ws_clients, api_readers, json_readers>>

\* Mutant of HandshakeFailed: the failed handshake leaves through
\* ws_client_disconnect like the later exit paths.
HandshakeFailed_Disconnects(s) ==
    /\ sub[s].pc = "handshake"
    /\ ws_clients' = ws_client_disconnect(ws_clients)
    /\ sub' = [sub EXCEPT ![s] = NoSub]
    /\ UNCHANGED <<colVars, now, pullVars, iconVars, calVars, cfgVars, api_readers, json_readers>>

\* accept_async answers Err: return.
HandshakeFailed(s) ==
    /\ sub[s].pc = "handshake"
    /\ sub' = [sub EXCEPT ![s] = NoSub]
    /\ UNCHANGED <<colVars, now, pullVars, iconVars, calVars, cfgVars, ws_clients, api_readers, json_readers>>

\* Mutant of HandshakeOk: the handler subscribes to the channel at once,
\* before its initial messages.
HandshakeOk_SubscribesFirst(s) ==
    /\ sub[s].pc = "handshake"
    /\ ws_clients' = ws_client_connect(ws_clients)
    /\ sub' = [sub EXCEPT ![s] = [@ EXCEPT !.pc = "init_lock",
                                            !.rx = Len(ws_broadcast) + 1,
                                            !.had_data = (metrics_json.tag = "Some")]]
    /\ UNCHANGED <<colVars, now, pullVars, iconVars, calVars, cfgVars, api_readers, json_readers>>

\* accept_async answers Ok: ws_client_connect, then api_status.read() is awaited.
HandshakeOk(s) ==
    /\ sub[s].pc = "handshake"
    /\ ws_clients' = ws_client_connect(ws_clients)
    /\ sub' = [sub EXCEPT ![s] = [@ EXCEPT !.pc = "init_lock",
                                            !.had_data = (metrics_json.tag = "Some")]]
    /\ UNCHANGED <<colVars, now, pullVars, iconVars, calVars, cfgVars, api_readers, json_readers>>

\* The read guard of api_status is granted: the status message is built and
\* its send awaited, the guard held.
InitStatusBuilt(s) ==
    /\ sub[s].pc = "init_lock"
    /\ ~ApiWriterQueued
    /\ api_readers' = api_readers \cup {s}
    /\ sub' = [sub EXCEPT ![s] = [@ EXCEPT !.pc = "init_status", !.out = Some(build_status)]]
    /\ UNCHANGED <<colVars, now, pullVars, iconVars, calVars, cfgVars, ws_clients, json_readers>>

\* The send of the initial status completes: metrics_json.read() is awaited.
InitStatusSent(s) ==
    /\ sub[s].pc = "init_status"
    /\ Len(sub[s].received) < MaxRecv
    /\ sub' = [sub EXCEPT ![s] = [@ EXCEPT !.pc = "init_json_lock", !.out = None,
                                            !.received = Append(@, Logged(sub[s].out.v))]]
    /\ UNCHANGED <<colVars, now, pullVars, iconVars, calVars, cfgVars, ws_clients, api_readers, json_readers>>

\* The send of the initial status fails: ws_client_disconnect and return.
InitStatusFailed(s) ==
    /\ sub[s].pc = "init_status"
    /\ Disconnect(s, "init_status")
    /\ UNCHANGED <<colVars, now, pullVars, iconVars, calVars, cfgVars>>

\* The read guard of metrics_json is granted and holds a snapshot: the metrics
\* message is built and its send awaited, both guards held.
InitMetricsBuilt(s) ==
    /\ sub[s].pc = "init_json_lock"
    /\ ~JsonWriterQueued
    /\ metrics_json.tag = "Some"
    /\ json_readers' = json_readers \cup {s}
    /\ sub' = [sub EXCEPT ![s] = [@ EXCEPT !.pc = "init_metrics",
                                            !.out = Some(WsMetrics(metrics_json.v))]]
    /\ UNCHANGED <<colVars, now, pullVars, iconVars, calVars, cfgVars, ws_clients, api_readers>>

\* The read guard of metrics_json is granted and holds None: the guards are
\* dropped at the end of the block; the subscription to the channel is next.
InitNoMetrics(s) ==
    /\ sub[s].pc = "init_json_lock"
    /\ ~JsonWriterQueued
    /\ metrics_json.tag = "None"
    /\ api_readers' = api_readers \ {s}
    /\ sub' = [sub EXCEPT ![s] = [@ EXCEPT !.pc = "subscribing"]]
    /\ UNCHANGED <<colVars, now, pullVars, iconVars, calVars, cfgVars, ws_clients, json_readers>>

\* The send of the initial metrics completes: the guards are dropped at the
\* end of the block; the subscription to the channel is next.
InitMetricsSent(s) ==
    /\ sub[s].pc = "init_metrics"
    /\ Len(sub[s].received) < MaxRecv
    /\ api_readers' = api_readers \ {s}
    /\ json_readers' = json_readers \ {s}
    /\ sub' = [sub EXCEPT ![s] = [@ EXCEPT !.pc = "subscribing", !.out = None,
                                            !.received = Append(@, Logged(sub[s].out.v))]]
    /\ UNCHANGED <<colVars, now, pullVars, iconVars, calVars, cfgVars, ws_clients>>

\* state.ws_broadcast.subscribe(): the Receiver gets the messages sent from
\* now on; the handler enters its loop. The handler's task runs in parallel
\* with the Collector's, which can run between the release of the guards and
\* this call.
Subscribe(s) ==
    /\ sub[s].pc = "subscribing"
    /\ sub' = [sub EXCEPT ![s] = [@ EXCEPT !.pc = "loop", !.rx = Len(ws_broadcast) + 1]]
    /\ UNCHANGED <<colVars, now, pullVars, iconVars, calVars, cfgVars, ws_clients, api_readers, json_readers>>

\* The send of the initial metrics fails: ws_client_disconnect and return.
InitMetricsFailed(s) ==
    /\ sub[s].pc = "init_metrics"
    /\ Disconnect(s, "init_metrics")
    /\ UNCHANGED <<colVars, now, pullVars, iconVars, calVars, cfgVars>>

\* select!: status_ticker.tick() is ready; api_status.read() is awaited.
HeartbeatTick(s) ==
    /\ sub[s].pc = "loop"
    /\ sub' = [sub EXCEPT ![s] = [@ EXCEPT !.pc = "hb_lock"]]
    /\ UNCHANGED <<colVars, now, pullVars, iconVars, calVars, cfgVars, ws_clients, api_readers, json_readers>>

\* The read guard of api_status is granted: the status message is built and
\* its send awaited, the guard held.
HeartbeatBuilt(s) ==
    /\ sub[s].pc = "hb_lock"
    /\ ~ApiWriterQueued
    /\ api_readers' = api_readers \cup {s}
    /\ sub' = [sub EXCEPT ![s] = [@ EXCEPT !.pc = "hb_send", !.out = Some(build_status)]]
    /\ UNCHANGED <<colVars, now, pullVars, iconVars, calVars, cfgVars, ws_clients, json_readers>>

\* The heartbeat send completes: the guard is dropped, back to select!.
HeartbeatSent(s) ==
    /\ sub[s].pc = "hb_send"
    /\ Len(sub[s].received) < MaxRecv
    /\ api_readers' = api_readers \ {s}
    /\ sub' = [sub EXCEPT ![s] = [@ EXCEPT !.pc = "loop", !.out = None,
                                            !.received = Append(@, Logged(sub[s].out.v))]]
    /\ UNCHANGED <<colVars, now, pullVars, iconVars, calVars, cfgVars, ws_clients, json_readers>>

\* The heartbeat send fails: ws_client_disconnect and break.
HeartbeatFailed(s) ==
    /\ sub[s].pc = "hb_send"
    /\ Disconnect(s, "heartbeat")
    /\ UNCHANGED <<colVars, now, pullVars, iconVars, calVars, cfgVars>>

\* select!: ws_receiver.next() yields a Ping; the Pong send is awaited.
ClientPing(s) ==
    /\ sub[s].pc = "loop"
    /\ sub' = [sub EXCEPT ![s] = [@ EXCEPT !.pc = "pong_send"]]
    /\ UNCHANGED <<colVars, now, pullVars, iconVars, calVars, cfgVars, ws_clients, api_readers, json_readers>>

\* The Pong send ends, its result ignored: back to select!.
PongDone(s) ==
    /\ sub[s].pc = "pong_send"
    /\ sub' = [sub EXCEPT ![s] = [@ EXCEPT !.pc = "loop"]]
    /\ UNCHANGED <<colVars, now, pullVars, iconVars, calVars, cfgVars, ws_clients, api_readers, json_readers>>

\* select!: ws_receiver.next() yields a Close frame or the end of the stream.
ClientClose(s) ==
    /\ sub[s].pc = "loop"
    /\ Disconnect(s, "close")
    /\ UNCHANGED <<colVars, now, pullVars, iconVars, calVars, cfgVars>>

\* Mutant of BroadcastRecv: a Receiver that lagged goes on from the oldest
\* message the channel still holds.
BroadcastRecv_SkipsLagged(s) ==
    /\ sub[s].pc = "loop"
    /\ sub[s].rx <= Len(ws_broadcast)
    /\ IF Len(ws_broadcast) - (sub[s].rx - 1) > BroadcastCapacity
       THEN /\ sub' = [sub EXCEPT ![s] = [@ EXCEPT !.rx = Len(ws_broadcast) - BroadcastCapacity + 1]]
            /\ UNCHANGED <<ws_clients, api_readers, json_readers>>
       ELSE /\ sub' = [sub EXCEPT ![s] = [@ EXCEPT !.pc = "fwd_send",
                                                    !.out = Some(ws_broadcast[sub[s].rx]),
                                                    !.rx = @ + 1]]
            /\ UNCHANGED <<ws_clients, api_readers, json_readers>>
    /\ UNCHANGED <<colVars, now, pullVars, iconVars, calVars, cfgVars>>

\* select!: rx.recv() is ready. Err(Lagged) when the Receiver fell more than
\* the channel's capacity behind: ws_client_disconnect and break. Ok(json):
\* the forwarding send is awaited.
BroadcastRecv(s) ==
    /\ sub[s].pc = "loop"
    /\ sub[s].rx <= Len(ws_broadcast)
    /\ IF Len(ws_broadcast) - (sub[s].rx - 1) > BroadcastCapacity
       THEN Disconnect(s, "recv_err")
       ELSE /\ sub' = [sub EXCEPT ![s] = [@ EXCEPT !.pc = "fwd_send",
                                                    !.out = Some(ws_broadcast[sub[s].rx]),
                                                    !.rx = @ + 1]]
            /\ UNCHANGED <<ws_clients, api_readers, json_readers>>
    /\ UNCHANGED <<colVars, now, pullVars, iconVars, calVars, cfgVars>>

\* The forwarding send completes: back to select!.
ForwardSent(s) ==
    /\ sub[s].pc = "fwd_send"
    /\ Len(sub[s].received) < MaxRecv
    /\ sub' = [sub EXCEPT ![s] = [@ EXCEPT !.pc = "loop", !.out = None,
                                            !.received = Append(@, Logged(sub[s].out.v))]]
    /\ UNCHANGED <<colVars, now, pullVars, iconVars, calVars, cfgVars, ws_clients, api_readers, json_readers>>

\* Mutant of ForwardFailed: the break without ws_client_disconnect.
ForwardFailed_NoDecrement(s) ==
    /\ sub[s].pc = "fwd_send"
    /\ sub' = [sub EXCEPT ![s] = [NoSub EXCEPT !.exit = "forward"]]
    /\ UNCHANGED <<ws_clients, api_readers, json_readers>>
    /\ UNCHANGED <<colVars, now, pullVars, iconVars, calVars, cfgVars>>

\* The forwarding send fails: ws_client_disconnect and break.
ForwardFailed(s) ==
    /\ sub[s].pc = "fwd_send"
    /\ Disconnect(s, "forward")
    /\ UNCHANGED <<colVars, now, pullVars, iconVars, calVars, cfgVars>>

handle_websocket(s) ==
    \/ Accept(s)
    \/ HandshakeFailed(s)
    \/ HandshakeOk(s)
    \/ InitStatusBuilt(s)
    \/ InitStatusSent(s)
    \/ InitStatusFailed(s)
    \/ InitMetricsBuilt(s)
    \/ InitNoMetrics(s)
    \/ InitMetricsSent(s)
    \/ InitMetricsFailed(s)
    \/ Subscribe(s)
    \/ HeartbeatTick(s)
    \/ HeartbeatBuilt(s)
    \/ HeartbeatSent(s)
    \/ HeartbeatFailed(s)
    \/ ClientPing(s)
    \/ PongDone(s)
    \/ ClientClose(s)
    \/ BroadcastRecv(s)
    \/ ForwardSent(s)
    \/ ForwardFailed(s)

\* The answers of the upstream API in the runs with WebSocket clients: the
\* project fetch may fail, the usage and estimate fetches answer.
WsProjectInputs == {<<Node("svc1", "api")>>}
WsUsageInputs == {[s \in {"svc1"} |-> m1], [s \in {"svc1"} |-> m2]}
WsEstimateInputs == {[m \in {"CPU_USAGE"} |-> 30]}
WsApiErrors == {[kind |-> "NoData", msg |-> ""]}

CollectorNextWs ==
    \/ Start
    \/ IncrTotal
    \/ \E p \in WsProjectInputs : ProjectOk(p)
    \/ \E e \in WsApiErrors : ProjectErr(e)
    \/ RecordFailure
    \/ \E u \in WsUsageInputs : \E order \in Perms(DOMAIN u) : UsageOk(u, order)
    \/ \E est \in WsEstimateInputs : EstimateOk(est)
    \/ StoreSnapshot
    \/ Broadcast
    \/ RecordSuccess

NextWs ==
    \/ CollectorNextWs
    \/ \E s \in Subs : handle_websocket(s)

SpecWs == Init /\ [][NextWs]_vars

\* The Collector's task is scheduled whenever it can run and every upstream
\* call returns; nothing makes a client take the messages sent to it.
FairSpecWs == SpecWs /\ WF_vars(CollectorNextWs)

\* Every task is scheduled whenever it can run, and every send to a client
\* ends, by success or by failure.
FairSpecTasks ==
    /\ SpecWs
    /\ WF_vars(CollectorNextWs)
    /\ \A s \in Subs : WF_vars(handle_websocket(s))

\* Cycles run when the channel is to overflow: more than BroadcastCapacity.
MaxLagCycles == 18

\* Successful cycles only, all with the same answers, and one client.
SpecLag ==
    /\ Init
    /\ [][\/ StartWithin(MaxLagCycles)
          \/ IncrTotal
          \/ \E p \in WsProjectInputs : ProjectOk(p)
          \/ UsageOk([s \in {"svc1"} |-> m1], <<"svc1">>)
          \/ \E est \in WsEstimateInputs : EstimateOk(est)
          \/ StoreSnapshot
          \/ Broadcast
          \/ RecordSuccess
          \/ handle_websocket("c1")]_vars

\* The Collector, one client and the wall clock.
SpecPush ==
    /\ Init
    /\ [][\/ CollectorNextWs
          \/ ClockTick
          \/ ClockStepBack
          \/ handle_websocket("c1")]_vars

\* Besides, the handler of slot c1 is scheduled whenever it can run: its
\* status_ticker fires, the read guard it awaits is granted when the lock is
\* free, and the sends of its heartbeats succeed. Nothing makes the client of
\* the other slot take what is sent to it.
FairSpecHeartbeat ==
    /\ SpecWs
    /\ WF_vars(CollectorNextWs)
    /\ WF_vars(HeartbeatTick("c1"))
    /\ WF_vars(HeartbeatBuilt("c1"))
    /\ WF_vars(HeartbeatSent("c1"))

\* --------------------------------------------------------------- IconCache

\* The record of a completed call: its arguments, the value it returned and
\* what fetch_icon answered it ("none": it made no fetch, "ok", "err").
Ret(op, name, ref, value, fetched) ==
    Some([op |-> op, name |-> name, ref |-> ref, value |-> value,
          fetched |-> fetched])

\* Mutant of GetIconBegin: the test for a data URL is missing.
GetIconBegin_FetchesDataUrl(c, name, ref) ==
    IF is_empty(ref) THEN [fetch |-> FALSE, ret |-> EmptyString, cache |-> c]
    ELSE IF LruContains(c, name)
         THEN [fetch |-> FALSE, ret |-> to_data_url(LruValue(c, name)),
               cache |-> LruGet(c, name)]
         ELSE [fetch |-> TRUE, ret |-> EmptyString, cache |-> c]

\* get_icon up to its fetch: the empty reference and the data URL return at
\* once, a cached name returns its data URL (cache.get), a miss goes on to
\* fetch_icon with the lock released.
GetIconBegin(c, name, ref) ==
    IF is_empty(ref) THEN [fetch |-> FALSE, ret |-> EmptyString, cache |-> c]
    ELSE IF starts_with_data(ref) THEN [fetch |-> FALSE, ret |-> ref, cache |-> c]
    ELSE IF LruContains(c, name)
         THEN [fetch |-> FALSE, ret |-> to_data_url(LruValue(c, name)),
               cache |-> LruGet(c, name)]
         ELSE [fetch |-> TRUE, ret |-> EmptyString, cache |-> c]

\* ensure_cached up to its fetch: a cached name returns true (cache.contains),
\* the empty reference and the data URL return false, else fetch_icon.
EnsureCachedBegin(c, name, ref) ==
    IF LruContains(c, name) THEN [fetch |-> FALSE, ret |-> TRUE, cache |-> c]
    ELSE IF is_empty(ref) \/ starts_with_data(ref)
         THEN [fetch |-> FALSE, ret |-> FALSE, cache |-> c]
         ELSE [fetch |-> TRUE, ret |-> FALSE, cache |-> c]

\* Mutant of get_raw: the entry is taken out of the cache (pop instead of get).
get_raw_Pops(c, name) ==
    [ret |-> IF LruContains(c, name) THEN Some(LruValue(c, name)) ELSE None,
     cache |-> IF LruContains(c, name) THEN LruRemove(c, LruIndex(c, name)) ELSE c]

\* get_raw: cache.get(service_name).cloned().
get_raw(c, name) ==
    [ret |-> IF LruContains(c, name) THEN Some(LruValue(c, name)) ELSE None,
     cache |-> LruGet(c, name)]

\* The history of a name after a put of key k that left the cache c2: the
\* names no longer cached lose their history.
HistAfter(h, c2) == [n \in Names |-> IF n \in LruKeys(c2) THEN h[n] ELSE None]

\* The order of access after an access to name k: k is the most recent.
Touch(a, k) == Append(SelectSeq(a, LAMBDA x : x # k), k)

\* The order of access after a call looked name k up in the cache c: a lookup
\* of a present key is an access.
AccessAfterLookup(a, c, k) == IF LruContains(c, k) THEN Touch(a, k) ELSE a

\* The order of access after k was stored and the cache became c2.
AccessAfterPut(a, c2, k) == SelectSeq(Touch(a, k), LAMBDA x : x \in LruKeys(c2))

\* A task calls get_icon(name, ref).
get_icon(t, name, ref) ==
    /\ call[t] = NoCall
    /\ LET b == GetIconBegin(icon_cache, name, ref)
       IN /\ icon_cache' = b.cache
          /\ IF b.fetch
             THEN /\ call' = [call EXCEPT ![t] = [op |-> "get_icon", name |-> name,
                                                   ref |-> ref]]
                  /\ UNCHANGED icon_ret
             ELSE /\ icon_ret' = Ret("get_icon", name, ref, b.ret, "none")
                  /\ UNCHANGED call
    /\ icon_access' = IF is_empty(ref) \/ starts_with_data(ref) THEN icon_access
                      ELSE AccessAfterLookup(icon_access, icon_cache, name)
    /\ UNCHANGED <<icon_config, icon_hist>>
    /\ UNCHANGED <<colVars, now, pullVars, wsVars, calVars, cfgVars>>

\* fetch_icon of a get_icon call answers Ok(icon): cache.put and the data URL.
GetIconFetchOk(t, icon) ==
    /\ call[t].op = "get_icon"
    /\ LET name == call[t].name
           c2 == LruPut(icon_cache, name, icon, icon_config.max_count)
           h2 == HistAfter(icon_hist, c2)
       IN /\ icon_cache' = c2
          /\ icon_hist' = [h2 EXCEPT ![name] =
                               IF icon_hist[name].tag = "Some" THEN icon_hist[name]
                               ELSE Some(to_data_url(icon))]
          /\ icon_access' = AccessAfterPut(icon_access, c2, name)
          /\ icon_ret' = Ret("get_icon", name, call[t].ref, to_data_url(icon), "ok")
    /\ call' = [call EXCEPT ![t] = NoCall]
    /\ UNCHANGED icon_config
    /\ UNCHANGED <<colVars, now, pullVars, wsVars, calVars, cfgVars>>

\* Mutant of GetIconFetchErr: the failure is cached as an icon without bytes.
GetIconFetchErr_CachesFailure(t, e) ==
    /\ call[t].op = "get_icon"
    /\ LET c2 == LruPut(icon_cache, call[t].name, [content_type |-> "", data |-> ""],
                        icon_config.max_count)
       IN /\ icon_cache' = c2
          /\ icon_hist' = HistAfter(icon_hist, c2)
          /\ icon_access' = AccessAfterPut(icon_access, c2, call[t].name)
    /\ icon_ret' = Ret("get_icon", call[t].name, call[t].ref, call[t].ref, "err")
    /\ call' = [call EXCEPT ![t] = NoCall]
    /\ UNCHANGED icon_config
    /\ UNCHANGED <<colVars, now, pullVars, wsVars, calVars, cfgVars>>

\* fetch_icon of a get_icon call answers Err: the original URL is returned.
GetIconFetchErr(t, e) ==
    /\ call[t].op = "get_icon"
    /\ icon_ret' = Ret("get_icon", call[t].name, call[t].ref, call[t].ref, "err")
    /\ call' = [call EXCEPT ![t] = NoCall]
    /\ UNCHANGED <<icon_config, icon_cache, icon_hist, icon_access>>
    /\ UNCHANGED <<colVars, now, pullVars, wsVars, calVars, cfgVars>>

\* A task calls ensure_cached(name, ref).
ensure_cached(t, name, ref) ==
    /\ call[t] = NoCall
    /\ LET b == EnsureCachedBegin(icon_cache, name, ref)
       IN /\ icon_cache' = b.cache
          /\ IF b.fetch
             THEN /\ call' = [call EXCEPT ![t] = [op |-> "ensure_cached", name |-> name,
                                                   ref |-> ref]]
                  /\ UNCHANGED icon_ret
             ELSE /\ icon_ret' = Ret("ensure_cached", name, ref, b.ret, "none")
                  /\ UNCHANGED call
    /\ icon_access' = AccessAfterLookup(icon_access, icon_cache, name)
    /\ UNCHANGED <<icon_config, icon_hist>>
    /\ UNCHANGED <<colVars, now, pullVars, wsVars, calVars, cfgVars>>

\* fetch_icon of an ensure_cached call answers Ok(icon): cache.put and true.
EnsureFetchOk(t, icon) ==
    /\ call[t].op = "ensure_cached"
    /\ LET c2 == LruPut(icon_cache, call[t].name, icon, icon_config.max_count)
       IN /\ icon_cache' = c2
          /\ icon_hist' = HistAfter(icon_hist, c2)
          /\ icon_access' = AccessAfterPut(icon_access, c2, call[t].name)
    /\ icon_ret' = Ret("ensure_cached", call[t].name, call[t].ref, TRUE, "ok")
    /\ call' = [call EXCEPT ![t] = NoCall]
    /\ UNCHANGED icon_config
    /\ UNCHANGED <<colVars, now, pullVars, wsVars, calVars, cfgVars>>

\* fetch_icon of an ensure_cached call answers Err: false.
EnsureFetchErr(t, e) ==
    /\ call[t].op = "ensure_cached"
    /\ icon_ret' = Ret("ensure_cached", call[t].name, call[t].ref, FALSE, "err")
    /\ call' = [call EXCEPT ![t] = NoCall]
    /\ UNCHANGED <<icon_config, icon_cache, icon_hist, icon_access>>
    /\ UNCHANGED <<colVars, now, pullVars, wsVars, calVars, cfgVars>>

\* The lists prefetch_icons is called with: one (name, url) pair per caller.
PrefetchInputs == [Callers -> Names \X IconRefs]

\* prefetch_icons(services): the pairs with an empty reference or a data URL
\* are filtered out; join_all polls the get_icon future of every other pair,
\* each running up to its fetch. The futures still fetching go on as the
\* callers' get_icon calls.
RECURSIVE PrefetchPoll(_, _, _, _)
PrefetchPoll(c, a, services, ts) ==
    IF ts = {} THEN [cache |-> c, access |-> a, calls |-> [t \in Callers |-> NoCall]]
    ELSE LET t == CHOOSE x \in ts : TRUE
             name == services[t][1]
             ref == services[t][2]
             skip == is_empty(ref) \/ starts_with_data(ref)
             b == GetIconBegin(c, name, ref)
             rest == PrefetchPoll(IF skip THEN c ELSE b.cache,
                                  IF skip THEN a ELSE AccessAfterLookup(a, c, name),
                                  services, ts \ {t})
         IN [cache |-> rest.cache,
             access |-> rest.access,
             calls |-> [rest.calls EXCEPT ![t] =
                           IF ~skip /\ b.fetch
                           THEN [op |-> "get_icon", name |-> name, ref |-> ref]
                           ELSE NoCall]]

prefetch_icons(services) ==
    /\ \A t \in Callers : call[t] = NoCall
    /\ LET r == PrefetchPoll(icon_cache, icon_access, services, Callers)
       IN /\ icon_cache' = r.cache
          /\ icon_access' = r.access
          /\ call' = r.calls
    /\ icon_ret' = Ret("prefetch_icons", "", EmptyString,
                       {services[t][2] : t \in Callers}, "none")
    /\ UNCHANGED <<icon_config, icon_hist>>
    /\ UNCHANGED <<colVars, now, pullVars, wsVars, calVars, cfgVars>>

\* A task calls get_raw(name).
GetRaw(name) ==
    /\ LET r == get_raw(icon_cache, name)
       IN /\ icon_cache' = r.cache
          /\ icon_ret' = Ret("get_raw", name, EmptyString, r.ret, "none")
    /\ icon_access' = AccessAfterLookup(icon_access, icon_cache, name)
    /\ UNCHANGED <<icon_config, call, icon_hist>>
    /\ UNCHANGED <<colVars, now, pullVars, wsVars, calVars, cfgVars>>

\* GET /icons/services/{seg}: the segment is URL-decoded, get_raw is called;
\* 200 with the icon's bytes and content type, or 404 "Icon not found". The
\* response is kept together with the request it answers.
handle_icons(seg) ==
    /\ LET r == get_raw(icon_cache, UrlDecode(seg))
       IN /\ icon_cache' = r.cache
          /\ http_resp' = IF r.ret.tag = "Some"
                          THEN Some([format |-> "icon", request |-> seg,
                                     status |-> 200,
                                     content_type |-> r.ret.v.content_type,
                                     body |-> r.ret.v.data])
                          ELSE Some([format |-> "icon", request |-> seg,
                                     status |-> 404,
                                     content_type |-> "", body |-> "Icon not found"])
    /\ icon_access' = AccessAfterLookup(icon_access, icon_cache, UrlDecode(seg))
    /\ UNCHANGED <<icon_config, call, icon_ret, icon_hist>>
    /\ UNCHANGED <<colVars, now, wsVars, calVars, cfgVars>>

\* --------------------------------------------- the Collector's icon pass

\* A service node with an icon.
NodeIcon(id, name, icon) == [id |-> id, name |-> name, icon |-> icon]

\* services_raw: (id, name, icon_url, group) of every edge; no service_groups
\* are configured, so the group is "ungrouped".
ServicesRaw(p) ==
    [i \in DOMAIN p |-> [id |-> p[i].id, name |-> p[i].name, icon_url |-> p[i].icon,
                         group |-> "ungrouped"]]

\* format!("/static/icons/services/{}", urlencoding::encode(&name)), the
\* configured base_url being empty.
IconPath(name) == <<"/static/icons/services/", UrlEncode(name)>>

\* Where the second pass goes on: to the next service, or to get_usage.
AfterIcon(rest) == IF rest = <<>> THEN "fetch_usage" ELSE "icons"

\* services.insert(id, (name, icon_data, group)) for the head of services_raw.
InsertService(icon_data) ==
    LET r == Head(cyc.services_raw)
    IN /\ cyc' = [cyc EXCEPT
                     !.services = MapPut(@, r.id, [name |-> r.name, icon |-> icon_data,
                                                   group |-> r.group]),
                     !.services_raw = Tail(@)]
       /\ pc' = AfterIcon(Tail(cyc.services_raw))

\* get_project answers Ok(p): api_up = 1, services_raw is collected; then the
\* second pass resolves the icon of every service.
ProjectOkIcons(p) ==
    /\ pc = "fetch_project"
    /\ gauges' = [gauges EXCEPT !.api_up = Some(1)]
    /\ cyc' = [cyc EXCEPT !.project = p, !.services_raw = ServicesRaw(p)]
    /\ pc' = AfterIcon(ServicesRaw(p))
    /\ UNCHANGED <<api_status, metrics_json, cycles, hist, ws_broadcast, now>>
    /\ UNCHANGED <<pullVars, wsVars, iconVars, calVars, cfgVars>>

\* The second pass takes the next service: the URL as it is when caching is
\* disabled; get_icon in base64 mode; in link mode ensure_cached and the path
\* of the icon endpoint for a URL, a data URL as it is, else the empty string.
\* A call that misses awaits fetch_icon.
ResolveIcon ==
    /\ pc = "icons"
    /\ LET r == Head(cyc.services_raw)
           g == GetIconBegin(icon_cache, r.name, r.icon_url)
           e == EnsureCachedBegin(icon_cache, r.name, r.icon_url)
       IN IF ~icon_config.enabled
          THEN /\ InsertService(r.icon_url)
               /\ UNCHANGED <<icon_cache, icon_ret, icon_access>>
          ELSE IF icon_config.mode = "base64"
          THEN /\ icon_cache' = g.cache
               /\ icon_access' = IF IsUrlRef(r.icon_url)
                                 THEN AccessAfterLookup(icon_access, icon_cache, r.name)
                                 ELSE icon_access
               /\ IF g.fetch
                  THEN /\ pc' = "icon_fetch"
                       /\ UNCHANGED <<cyc, icon_ret>>
                  ELSE /\ InsertService(g.ret)
                       /\ icon_ret' = Ret("get_icon", r.name, r.icon_url, g.ret, "none")
          ELSE IF IsUrlRef(r.icon_url)
          THEN /\ icon_cache' = e.cache
               /\ icon_access' = AccessAfterLookup(icon_access, icon_cache, r.name)
               /\ IF e.fetch
                  THEN /\ pc' = "icon_fetch"
                       /\ UNCHANGED <<cyc, icon_ret>>
                  ELSE /\ InsertService(IconPath(r.name))
                       /\ icon_ret' = Ret("ensure_cached", r.name, r.icon_url, e.ret, "none")
          ELSE /\ InsertService(IF starts_with_data(r.icon_url) THEN r.icon_url
                                ELSE EmptyString)
               /\ UNCHANGED <<icon_cache, icon_ret, icon_access>>
    /\ UNCHANGED <<api_status, metrics_json, gauges, cycles, hist, ws_broadcast, now>>
    /\ UNCHANGED <<pullVars, wsVars, calVars, cfgVars, icon_config, call, icon_hist>>

\* fetch_icon answers Ok(icon) to the Collector's call: cache.put; get_icon
\* returns the data URL, ensure_cached true and the path is used.
IconFetchOk(icon) ==
    /\ pc = "icon_fetch"
    /\ LET r == Head(cyc.services_raw)
           c2 == LruPut(icon_cache, r.name, icon, icon_config.max_count)
           h2 == HistAfter(icon_hist, c2)
       IN /\ icon_cache' = c2
          /\ icon_access' = AccessAfterPut(icon_access, c2, r.name)
          /\ IF icon_config.mode = "base64"
             THEN /\ InsertService(to_data_url(icon))
                  /\ icon_hist' = [h2 EXCEPT ![r.name] =
                                       IF icon_hist[r.name].tag = "Some"
                                       THEN icon_hist[r.name]
                                       ELSE Some(to_data_url(icon))]
                  /\ icon_ret' = Ret("get_icon", r.name, r.icon_url,
                                     to_data_url(icon), "ok")
             ELSE /\ InsertService(IconPath(r.name))
                  /\ icon_hist' = h2
                  /\ icon_ret' = Ret("ensure_cached", r.name, r.icon_url, TRUE, "ok")
    /\ UNCHANGED <<api_status, metrics_json, gauges, cycles, hist, ws_broadcast, now>>
    /\ UNCHANGED <<pullVars, wsVars, calVars, cfgVars, icon_config, call>>

\* Mutant of IconFetchErr: the failed fetch is taken for a failed scrape.
IconFetchErr_FailsCycle(e) ==
    /\ pc = "icon_fetch"
    /\ LET r == Head(cyc.services_raw)
       IN icon_ret' = Ret(IF icon_config.mode = "base64" THEN "get_icon"
                          ELSE "ensure_cached",
                          r.name, r.icon_url, FALSE, "err")
    /\ cyc' = [cyc EXCEPT !.err = Some([kind |-> "RequestError", msg |-> e])]
    /\ pc' = "lock_failed"
    /\ UNCHANGED <<api_status, metrics_json, gauges, cycles, hist, ws_broadcast, now>>
    /\ UNCHANGED <<pullVars, wsVars, calVars, cfgVars, icon_config, icon_cache, call,
                   icon_hist, icon_access>>

\* fetch_icon answers Err to the Collector's call: get_icon returns the URL;
\* ensure_cached returns false, which the Collector does not look at: the
\* path is used all the same.
IconFetchErr(e) ==
    /\ pc = "icon_fetch"
    /\ LET r == Head(cyc.services_raw)
       IN IF icon_config.mode = "base64"
          THEN /\ InsertService(r.icon_url)
               /\ icon_ret' = Ret("get_icon", r.name, r.icon_url, r.icon_url, "err")
          ELSE /\ InsertService(IconPath(r.name))
               /\ icon_ret' = Ret("ensure_cached", r.name, r.icon_url, FALSE, "err")
    /\ UNCHANGED <<api_status, metrics_json, gauges, cycles, hist, ws_broadcast, now>>
    /\ UNCHANGED <<pullVars, wsVars, calVars, cfgVars, icon_config, icon_cache, call,
                   icon_hist, icon_access>>

\* The answers of the upstream API in the runs of the icon pass: projects
\* whose nodes carry icons, usage of a service that has no usage, of one the
\* project no longer lists, and of none that costs anything.
CollectProjectInputs ==
    {<<NodeIcon("svc1", "api", UrlRef), NodeIcon("svc2", "my api", DataRef)>>,
     <<NodeIcon("svc1", "api", UrlRef), NodeIcon("svc3", "web", UrlRef)>>}
m0 == [m \in {"CPU_USAGE"} |-> 0]
CollectUsageInputs ==
    {[s \in {"svc1", "svc9"} |-> IF s = "svc1" THEN m2 ELSE m1],
     [s \in {"svc1", "svc9"} |-> m0]}
CollectEstimateInputs == {[m \in {"CPU_USAGE"} |-> 30]}
CollectIcons == {[content_type |-> "image/png", data |-> "b1"]}
CollectFetchErrors == {"HTTP 404"}

\* The configurations of the icon cache: disabled, base64 mode, link mode,
\* with every max_count > 0 up to MaxCapacity.
IconConfigs ==
    {[enabled |-> en, mode |-> mo, max_count |-> k] :
        en \in BOOLEAN, mo \in {"base64", "link"}, k \in 1..MaxCapacity}
    \ {[enabled |-> FALSE, mode |-> "link", max_count |-> k] : k \in 1..MaxCapacity}

InitCollect ==
    /\ InitState
    /\ icon_config \in IconConfigs
    /\ today = EpochDate
    /\ service_groups = <<>>
    /\ pricing = ConfigPricing

CollectorNextIcons ==
    \/ Start
    \/ IncrTotal
    \/ \E p \in CollectProjectInputs : ProjectOkIcons(p)
    \/ ResolveIcon
    \/ \E icon \in CollectIcons : IconFetchOk(icon)
    \/ \E e \in CollectFetchErrors : IconFetchErr(e)
    \/ \E u \in CollectUsageInputs : \E order \in Perms(DOMAIN u) : UsageOk(u, order)
    \/ \E est \in CollectEstimateInputs : EstimateOk(est)
    \/ StoreSnapshot
    \/ Broadcast
    \/ RecordSuccess

NextCollect ==
    \/ CollectorNextIcons
    \/ \E name \in Names : handle_icons(UrlEncode(name))

SpecCollect == InitCollect /\ [][NextCollect]_vars

\* The cycles of the icon pass with a project fetch that may fail and a wall
\* clock that advances.
NextCollectClock ==
    \/ CollectorNextIcons
    \/ \E e \in WsApiErrors : ProjectErr(e)
    \/ RecordFailure
    \/ ClockTick

SpecCollectClock == InitCollect /\ [][NextCollectClock]_vars

\* ------------------------------------------------------- the billing period

\* The years of the dates tried.
FirstYear == 1899
LastYear == 2101

\* A NaiveDate is the number of its day, day 0 being 1970-01-01 (proleptic
\* Gregorian calendar).
DaysFromCivil(y, m, d) ==
    LET y2 == IF m <= 2 THEN y - 1 ELSE y
        era == y2 \div 400
        yoe == y2 - era * 400
        mp == IF m > 2 THEN m - 3 ELSE m + 9
        doy == (153 * mp + 2) \div 5 + d - 1
        doe == yoe * 365 + yoe \div 4 - yoe \div 100 + doy
    IN era * 146097 + doe - 719468

\* Datelike::year, month and day of a NaiveDate.
CivilFromDays(n) ==
    LET z == n + 719468
        era == z \div 146097
        doe == z - era * 146097
        yoe == (doe - doe \div 1460 + doe \div 36524 - doe \div 146096) \div 365
        doy == doe - (365 * yoe + yoe \div 4 - yoe \div 100)
        mp == (5 * doy + 2) \div 153
        d == doy - (153 * mp + 2) \div 5 + 1
        m == IF mp < 10 THEN mp + 3 ELSE mp - 9
        y == yoe + era * 400
    IN [year |-> IF m <= 2 THEN y + 1 ELSE y, month |-> m, day |-> d]

\* NaiveDate::from_ymd_opt: None when there is no such date.
from_ymd_opt(y, m, d) ==
    IF m \in 1..12 /\ d \in 1..31
          /\ CivilFromDays(DaysFromCivil(y, m, d)) = [year |-> y, month |-> m, day |-> d]
    THEN Some(DaysFromCivil(y, m, d))
    ELSE None

\* The value of a computation that panicked in Option::unwrap.
Panic == -1

\* Mutant of days_in_current_month: December is not wrapped to January.
days_in_current_month_NoWrap(year, month) ==
    LET first == from_ymd_opt(year, month + 1, 1)
    IN IF first.tag = "None" THEN Panic
       ELSE CivilFromDays(first.v - 1).day

\* days_in_current_month: the day of the month of the day before the first
\* day of the next month.
days_in_current_month(year, month) ==
    LET first == IF month = 12 THEN from_ymd_opt(year + 1, 1, 1)
                 ELSE from_ymd_opt(year, month + 1, 1)
    IN IF first.tag = "None" THEN Panic
       ELSE CivilFromDays(first.v - 1).day

\* The dates Utc::now() can read in the years tried.
Dates == {CivilFromDays(n) :
             n \in DaysFromCivil(FirstYear, 1, 1)..DaysFromCivil(LastYear, 12, 31)}

\* Calculate billing period: days_elapsed = now.day(), days_in_month,
\* days_remaining = days_in_month - days_elapsed in u32 (a negative value
\* stands for the subtraction that overflowed).
BillingPeriod ==
    /\ billing = None
    /\ LET days_elapsed == today.day
           days_in_month == days_in_current_month(today.year, today.month)
       IN billing' = Some([days_elapsed |-> days_elapsed,
                           days_in_month |-> days_in_month,
                           days_remaining |-> days_in_month - days_elapsed])
    /\ UNCHANGED today
    /\ UNCHANGED <<colVars, now, pullVars, wsVars, iconVars, cfgVars>>

\* The date changes at midnight; the next cycle computes its own period.
NextDay ==
    /\ today.year < LastYear \/ today.month < 12 \/ today.day < 31
    /\ today' = CivilFromDays(DaysFromCivil(today.year, today.month, today.day) + 1)
    /\ billing' = None
    /\ UNCHANGED <<colVars, now, pullVars, wsVars, iconVars, cfgVars>>

InitDays ==
    /\ InitState
    /\ icon_config = DefaultIconConfig
    /\ today \in Dates
    /\ service_groups = <<>>
    /\ pricing = ConfigPricing

NextDays == BillingPeriod \/ NextDay

SpecDays == InitDays /\ [][NextDays]_vars

\* ------------------------------------------------------- service groups

\* Longest service name and pattern, most patterns of a group and most groups
\* of the configurations tried.
MaxNameLen == 2
MaxPatterns == 2
MaxGroups == 2

\* A service name or a pattern is the sequence of its characters.
Chars == {"a", "b"}
Strs(n) == UNION {[1..k -> Chars] : k \in 0..n}

\* The keys of the service_groups map.
GroupNames == {"db", "web", "ungrouped"}

\* Config.service_groups, a HashMap<String, Vec<String>>, in the order its
\* iter() yields the entries: any order of distinct keys.
GroupConfigs ==
    LET PatternLists == UNION {[1..k -> Strs(MaxNameLen)] : k \in 0..MaxPatterns}
        Entry == [group : GroupNames, patterns : PatternLists]
    IN {c \in UNION {[1..k -> Entry] : k \in 0..MaxGroups} :
           \A i, j \in DOMAIN c : i # j => c[i].group # c[j].group}

\* str::contains: the pattern occurs in the name at some position.
str_contains(name, p) ==
    \E i \in 1..(Len(name) - Len(p) + 1) : SubSeq(name, i, i + Len(p) - 1) = p

\* patterns.iter().any(|p| name.contains(p) || p == &name)
AnyPattern(patterns, name) ==
    \E j \in DOMAIN patterns : str_contains(name, patterns[j]) \/ patterns[j] = name

\* Mutant of find_group: a pattern matches only the name equal to it.
RECURSIVE find_group_ExactOnly(_, _)
find_group_ExactOnly(groups, name) ==
    IF groups = <<>> THEN "ungrouped"
    ELSE IF \E j \in DOMAIN Head(groups).patterns : Head(groups).patterns[j] = name
         THEN Head(groups).group
         ELSE find_group_ExactOnly(Tail(groups), name)

\* service_groups.iter().find(..).map(|(g, _)| g.clone())
\*     .unwrap_or_else(|| "ungrouped".to_string())
RECURSIVE find_group(_, _)
find_group(groups, name) ==
    IF groups = <<>> THEN "ungrouped"
    ELSE IF AnyPattern(Head(groups).patterns, name)
         THEN Head(groups).group
         ELSE find_group(Tail(groups), name)

\* The first pass of collect_metrics gives the service `name` its group.
AssignGroup(name) ==
    /\ grouped' = Some([name |-> name, group |-> find_group(service_groups, name)])
    /\ UNCHANGED <<service_groups, pricing, priced>>
    /\ UNCHANGED <<colVars, now, pullVars, wsVars, iconVars, calVars>>

InitGroups ==
    /\ InitState
    /\ icon_config = DefaultIconConfig
    /\ today = EpochDate
    /\ service_groups \in GroupConfigs
    /\ pricing = ConfigPricing

NextGroups == \E name \in Strs(MaxNameLen) : AssignGroup(name)

SpecGroups == InitGroups /\ [][NextGroups]_vars

\* ----------------------------------------------------------------- pricing

\* PricingConfig::set_price: self.overrides.insert(measurement, price).
set_price(measurement, price) ==
    /\ pricing' = [pricing EXCEPT !.overrides = MapPut(@, measurement, price)]
    /\ priced' = Some([op |-> "set_price", measurement |-> measurement,
                       usage |-> <<>>, value |-> price])
    /\ UNCHANGED <<service_groups, grouped>>
    /\ UNCHANGED <<colVars, now, pullVars, wsVars, iconVars, calVars>>

\* A call of PricingConfig::get_price.
PriceOf(measurement) ==
    /\ priced' = Some([op |-> "get_price", measurement |-> measurement,
                       usage |-> <<>>,
                       value |-> PricingGetPrice(pricing, measurement)])
    /\ UNCHANGED <<service_groups, grouped, pricing>>
    /\ UNCHANGED <<colVars, now, pullVars, wsVars, iconVars, calVars>>

\* The cost of one entry of the usage map, as the loop of collect_metrics
\* computes it.
CostOf(measurements) ==
    /\ priced' = Some([op |-> "cost", measurement |-> "",
                       usage |-> measurements,
                       value |-> ServiceCostWith(pricing, measurements)])
    /\ UNCHANGED <<service_groups, grouped, pricing>>
    /\ UNCHANGED <<colVars, now, pullVars, wsVars, iconVars, calVars>>

\* PricingConfig::new(plan) for the plans tried.
InitPricing ==
    /\ InitState
    /\ icon_config = DefaultIconConfig
    /\ today = EpochDate
    /\ service_groups = <<>>
    /\ pricing \in {PricingNew(plan) : plan \in {"pro", "Pro", "hobby", "team"}}

\* Overrides of known and unknown measurements, to zero too; usage maps that
\* lack measurements and one that has all four and an unknown one.
NextPricing ==
    \/ \E m \in Measurements \cup {"GPU_USAGE"}, price \in {0, 300} : set_price(m, price)
    \/ \E m \in Measurements \cup {"GPU_USAGE"} : PriceOf(m)
    \/ \E u \in {<<>>, m1, m2,
                  [m \in Measurements \cup {"GPU_USAGE"} |->
                      CASE m = "CPU_USAGE" -> 10 [] m = "MEMORY_USAGE_GB" -> 5
                        [] m = "DISK_USAGE_GB" -> 2 [] m = "NETWORK_TX_GB" -> 1
                        [] OTHER -> 7]} : CostOf(u)

SpecPricing == InitPricing /\ [][NextPricing]_vars

\* IconCache::new(capacity) for every capacity > 0 up to MaxCapacity.
InitIconCache ==
    /\ InitState
    /\ icon_config \in {[enabled |-> TRUE, mode |-> "base64", max_count |-> k] :
                            k \in 1..MaxCapacity}
    /\ today = EpochDate
    /\ service_groups = <<>>
    /\ pricing = ConfigPricing

NextIconCache ==
    \/ \E t \in Callers, name \in Names, ref \in IconRefs : get_icon(t, name, ref)
    \/ \E t \in Callers, icon \in Icons : GetIconFetchOk(t, icon)
    \/ \E t \in Callers, e \in FetchErrors : GetIconFetchErr(t, e)
    \/ \E t \in Callers, name \in Names, ref \in IconRefs : ensure_cached(t, name, ref)
    \/ \E t \in Callers, icon \in Icons : EnsureFetchOk(t, icon)
    \/ \E t \in Callers, e \in FetchErrors : EnsureFetchErr(t, e)
    \/ \E services \in PrefetchInputs : prefetch_icons(services)
    \/ \E name \in Names : GetRaw(name)

SpecIconCache == InitIconCache /\ [][NextIconCache]_vars

\* ------------------------------------------------------------------ claims

\* The names whose icon the stored snapshot gives as a path of the icon
\* endpoint.
SnapshotIconNames ==
    IF metrics_json.tag = "None" THEN {}
    ELSE {n \in Names : \E i \in DOMAIN metrics_json.v.services :
                            metrics_json.v.services[i].icon = IconPath(n)}

\* C11: in link mode with caching enabled, a name whose icon the current
\* snapshot gives as /static/icons/services/{name} is in the icon cache: a
\* get_raw of it by the icon endpoint returns the icon.
C11_LinkIconsAreCached ==
    (icon_config.enabled /\ icon_config.mode = "link") =>
        \A n \in SnapshotIconNames : get_raw(icon_cache, n).ret.tag = "Some"

\* The value the last completed IconCache call returned, when it was a call
\* of op.
Returned(r, op) == r.tag = "Some" /\ r.v.op = op

\* C12: the key evicted by a store into a full cache is the one whose most
\* recent access (store, or lookup of the present key by get_icon, get_raw or
\* ensure_cached) is the oldest.
C12_EvictsLeastRecentlyAccessed ==
    [][\A k \in LruKeys(icon_cache) \ LruKeys(icon_cache') : k = icon_access[1]]_vars

\* C13: the number of entries of the icon cache never exceeds the capacity
\* given at construction, whatever calls interleave (and cache_size(), the
\* length, counts distinct names).
C13_SizeWithinCapacity ==
    /\ Len(icon_cache) <= icon_config.max_count
    /\ Cardinality(LruKeys(icon_cache)) = Len(icon_cache)

C13_Witness ==
    /\ icon_config.max_count = 2
    /\ Len(icon_cache) = 2
    /\ call["t1"].op = "get_icon"
    /\ call["t2"].op = "ensure_cached"
    /\ call["t1"].name \notin LruKeys(icon_cache)
    /\ call["t2"].name = call["t1"].name
    /\ Returned(icon_ret, "get_icon") /\ icon_ret.v.fetched = "ok"

\* C14: get_icon with an empty reference returns the empty string and with a
\* data URL returns it unchanged; neither makes a fetch nor changes the cache,
\* and prefetch_icons over such references makes no fetch and no change.
C14_NoFetchForEmptyOrData ==
    /\ [](\A t \in Callers : call[t].op # "none" => IsUrlRef(call[t].ref))
    /\ [][/\ (Returned(icon_ret', "get_icon") /\ ~IsUrlRef(icon_ret'.v.ref) /\ call' = call) =>
               /\ icon_ret'.v.value = icon_ret'.v.ref
               /\ icon_ret'.v.fetched = "none"
               /\ icon_cache' = icon_cache
          /\ (Returned(icon_ret', "prefetch_icons") /\ icon_ret' # icon_ret
                 /\ \A ref \in icon_ret'.v.value : ~IsUrlRef(ref)) =>
               /\ icon_cache' = icon_cache
               /\ call' = call
         ]_vars

C14_Witness ==
    /\ Returned(icon_ret, "get_icon")
    /\ icon_ret.v.ref = DataRef
    /\ icon_ret.v.value = DataRef
    /\ Len(icon_cache) = 2
    /\ icon_ret.v.name \notin LruKeys(icon_cache)

\* C15: a get_icon call whose fetch failed returns the reference it was given
\* and leaves the cache as it was; a get_icon call for a URL returns without
\* a fetch only when the name is cached, so the next call fetches again.
C15_FailedFetchStoresNothing ==
    [][/\ (Returned(icon_ret', "get_icon") /\ icon_ret'.v.fetched = "err" /\ call' # call) =>
            /\ icon_ret'.v.value = icon_ret'.v.ref
            /\ icon_cache' = icon_cache
       /\ (Returned(icon_ret', "get_icon") /\ icon_ret'.v.fetched = "none"
              /\ IsUrlRef(icon_ret'.v.ref) /\ call' = call) =>
            LruContains(icon_cache, icon_ret'.v.name)
      ]_vars

C15_Witness ==
    /\ Returned(icon_ret, "get_icon")
    /\ icon_ret.v.fetched = "err"
    /\ icon_ret.v.value = UrlRef
    /\ icon_ret.v.name \notin LruKeys(icon_cache)
    /\ call["t1"] = [op |-> "get_icon", name |-> icon_ret.v.name, ref |-> UrlRef]
    /\ call["t2"] = NoCall
    /\ Len(icon_cache) = 1

\* C16: once a get_icon call has fetched a name's icon, every later get_icon
\* for that name, as long as the entry was not evicted, makes no fetch and
\* returns the data URL that call returned.
C16_LaterCallsHitSameUrl ==
    [][/\ \A n \in Names :
              (Returned(icon_ret', "get_icon") /\ icon_ret'.v.name = n
                 /\ IsUrlRef(icon_ret'.v.ref) /\ call' = call
                 /\ icon_hist[n].tag = "Some") =>
                  /\ icon_ret'.v.fetched = "none"
                  /\ icon_ret'.v.value = icon_hist[n].v
       /\ \A t \in Callers :
              (call[t] = NoCall /\ call'[t].op = "get_icon") =>
                  icon_hist[call'[t].name].tag = "None"
      ]_vars

\* The entries of the cache, whatever their order.
Entries(c) == {c[i] : i \in DOMAIN c}

\* C17: a request to the icon endpoint (get_raw) makes no fetch and neither
\* adds nor removes an entry of the cache; it answers 404 "Icon not found"
\* exactly when the name is not cached, else 200 with the cached icon.
C17_GetRawIsPureLookup ==
    [][(colVars' = colVars /\ http_resp'.tag = "Some") =>
          LET name == UrlDecode(http_resp'.v.request)
          IN /\ Entries(icon_cache') = Entries(icon_cache)
             /\ call' = call
             /\ IF LruContains(icon_cache, name)
                THEN /\ http_resp'.v.status = 200
                     /\ http_resp'.v.body = LruValue(icon_cache, name).data
                     /\ http_resp'.v.content_type = LruValue(icon_cache, name).content_type
                ELSE /\ http_resp'.v.status = 404
                     /\ http_resp'.v.body = "Icon not found"
      ]_vars

C17_Witness ==
    /\ http_resp.tag = "Some"
    /\ http_resp.v.status = 404
    /\ http_resp.v.request = "my%20api"
    /\ Len(icon_cache) = 2
    /\ metrics_json.tag = "Some"

\* The positions at which the snapshot of the running call is the stored one.
Published == pc \in {"broadcast", "lock_success"} /\ metrics_json.tag = "Some"

\* C18: in a published snapshot an entry has is_deleted = true exactly when
\* its service id is not in the project's service list of that cycle; such an
\* entry has the id as its name, an empty icon and the group "ungrouped".
C18_DeletedServices ==
    Published =>
        LET ids == {cyc.project[j].id : j \in DOMAIN cyc.project}
        IN \A i \in DOMAIN metrics_json.v.services :
              LET d == metrics_json.v.services[i]
              IN /\ d.is_deleted <=> d.id \notin ids
                 /\ d.is_deleted =>
                        /\ d.name = d.id
                        /\ d.icon = EmptyString
                        /\ d.group = "ungrouped"

C18_Witness ==
    /\ Published
    /\ Len(metrics_json.v.services) = 2
    /\ \E i, j \in DOMAIN metrics_json.v.services :
           /\ metrics_json.v.services[i].is_deleted
           /\ metrics_json.v.services[i].id = "svc9"
           /\ ~metrics_json.v.services[j].is_deleted
           /\ metrics_json.v.services[j].name = "api"
           /\ metrics_json.v.services[j].icon # EmptyString

\* C19: when the snapshot's total cost is 0 every service's
\* estimated_monthly_usd is 0 whatever the project's estimate is; when it is
\* positive each service gets est_monthly * cost_usd / total_cost.
C19_EstimateDistribution ==
    metrics_json.tag = "Some" =>
        LET total == metrics_json.v.project.current_usage_usd
            est == metrics_json.v.project.estimated_monthly_usd
        IN \A i \in DOMAIN metrics_json.v.services :
              LET d == metrics_json.v.services[i]
              IN d.estimated_monthly_usd =
                     IF total = 0 THEN 0 ELSE (est * d.cost_usd) \div total

C19_Witness ==
    /\ metrics_json.tag = "Some"
    /\ metrics_json.v.project.current_usage_usd = 0
    /\ metrics_json.v.project.estimated_monthly_usd > 0
    /\ Len(metrics_json.v.services) = 2
    /\ hist.pre_json.tag = "Some"
    /\ hist.pre_json.v.project.current_usage_usd > 0
    /\ \E i \in DOMAIN hist.pre_json.v.services :
           hist.pre_json.v.services[i].estimated_monthly_usd
               \notin {0, hist.pre_json.v.project.estimated_monthly_usd}

\* C21: after every successful collect_metrics call last_success is the
\* scrape_timestamp of the snapshot the call published and last_error is None,
\* whether or not icon fetches of the call failed; a failed icon fetch leaves
\* api_status as it is and the call goes on to the next service or to the
\* usage fetch.
C21_IconFailureIsNoScrapeFailure ==
    /\ [](( pc = "idle" /\ hist.result = "ok") =>
             /\ metrics_json.tag = "Some"
             /\ api_status.last_success = Some(metrics_json.v.scrape_timestamp)
             /\ api_status.last_error = None
             /\ api_status.failed_scrapes = hist.pre_failed)
    /\ [][(pc = "icon_fetch" /\ icon_ret' # icon_ret /\ icon_ret'.v.fetched = "err") =>
              /\ api_status' = api_status
              /\ pc' \in {"icons", "fetch_usage"}
              /\ hist'.result = "running"]_vars

C21_Witness ==
    /\ pc = "idle"
    /\ hist.result = "ok"
    /\ icon_ret = Ret("ensure_cached", "web", UrlRef, FALSE, "err")
    /\ hist.pre_failed = 1
    /\ api_status.failed_scrapes = 1
    /\ api_status.last_error = None
    /\ api_status.last_success = Some(1)
    /\ now = 1
    /\ metrics_json.tag = "Some"
    /\ metrics_json.v.scrape_timestamp = 1

\* The calendar: a year is a leap year when it is divisible by 4 and not by
\* 100, or by 400.
IsLeapYear(y) == (y % 4 = 0 /\ y % 100 # 0) \/ y % 400 = 0
CalendarDays(y, m) ==
    IF m = 2 THEN (IF IsLeapYear(y) THEN 29 ELSE 28)
    ELSE IF m \in {4, 6, 9, 11} THEN 30 ELSE 31

\* C20: days_in_current_month gives the calendar's number of days of the
\* month (29 for February of a leap year, 28 otherwise, 31 for December), so
\* days_elapsed >= 1 and days_remaining = days_in_month - days_elapsed never
\* goes below 0.
C20_DaysInMonth ==
    billing.tag = "Some" =>
        /\ billing.v.days_in_month = CalendarDays(today.year, today.month)
        /\ billing.v.days_elapsed >= 1
        /\ billing.v.days_remaining >= 0
        /\ billing.v.days_remaining + billing.v.days_elapsed =
               CalendarDays(today.year, today.month)

C20_Witness ==
    /\ billing.tag = "Some"
    /\ today = [year |-> 2024, month |-> 2, day |-> 29]
    /\ billing.v = [days_elapsed |-> 29, days_in_month |-> 29, days_remaining |-> 0]

\* The sum of f over its domain.
RECURSIVE SumSeries(_, _)
SumSeries(f, keys) ==
    IF keys = {} THEN 0
    ELSE LET k == CHOOSE x \in keys : TRUE
         IN f[k].service_cost + SumSeries(f, keys \ {k})

\* C1: a collect_metrics call that failed (at the project, usage or estimate
\* fetch) leaves metrics_json as it was when the call started.
C1_FailedCycleKeepsSnapshot ==
    (pc = "idle" /\ hist.result = "err") => metrics_json = hist.pre_json

C1_Witness ==
    /\ pc = "idle"
    /\ hist.result = "err"
    /\ hist.site = "estimate"
    /\ metrics_json.tag = "Some"

\* C2: every collect_metrics call adds exactly 1 to total_scrapes, and adds
\* exactly 1 to failed_scrapes if and only if it returned Err.
C2_CountersPerCycle ==
    (pc = "idle" /\ hist.result \in {"ok", "err"}) =>
        /\ api_status.total_scrapes = hist.pre_total + 1
        /\ api_status.failed_scrapes =
               hist.pre_failed + (IF hist.result = "err" THEN 1 ELSE 0)

\* C3: after a call aborted by an upstream error, last_error holds that
\* error's message and no snapshot was published by the call.
C3_ErrorRecorded ==
    (pc = "idle" /\ hist.result = "err") =>
        /\ api_status.last_error = Some(ErrToString(hist.err.v))
        /\ metrics_json = hist.pre_json

\* A Prometheus body that is the result of one complete cycle (or of none):
\* service series appear only together with the project's current usage, which
\* is the sum of their costs.
PromFromOneCycle(g) ==
    IF g.current_usage.tag = "None"
    THEN g.service = <<>>
    ELSE SumSeries(g.service, DOMAIN g.service) = g.current_usage.v

\* A JSON body is the "No data yet" object or one snapshot whose project
\* summary agrees with its own services list.
JsonFromOneCycle(b) ==
    "snapshot" \in DOMAIN b =>
        SumCost(b.snapshot.services) = b.snapshot.project.current_usage_usd

\* C4: every response served reflects the complete result of exactly one
\* collection cycle, never values of two cycles or of an aborted cycle.
C4_ResponsesFromOneCycle ==
    http_resp.tag = "Some" =>
        IF http_resp.v.format = "prometheus"
        THEN PromFromOneCycle(http_resp.v.body)
        ELSE JsonFromOneCycle(http_resp.v.body)

\* C5: metrics_json is None or a fully computed snapshot whose
\* current_usage_usd is the sum of cost_usd over its own services, and a JSON
\* reader sees nothing else.
C5_SnapshotWhole ==
    /\ metrics_json.tag = "Some" =>
           SumCost(metrics_json.v.services) = metrics_json.v.project.current_usage_usd
    /\ (http_resp.tag = "Some" /\ http_resp.v.format = "json") =>
           JsonFromOneCycle(http_resp.v.body)

C5_Witness ==
    /\ metrics_json.tag = "Some"
    /\ Len(metrics_json.v.services) = 2
    /\ hist.pre_json.tag = "Some"
    /\ hist.pre_json # metrics_json
    /\ http_resp = Some([format |-> "json", body |-> [snapshot |-> metrics_json.v]])

\* C6: the scrape_timestamp of the snapshot a pull reader finds in
\* metrics_json never gets older.
C6_TimestampMonotonic ==
    [][(metrics_json.tag = "Some" /\ metrics_json'.tag = "Some") =>
           metrics_json'.v.scrape_timestamp >= metrics_json.v.scrape_timestamp]_vars

\* A handler that completed the handshake and has not ended.
Live(h) == h.pc \notin {"closed", "handshake"}

\* A handler that has not yet reached the subscription to the channel.
Joining(h) == h.pc \in {"handshake", "init_lock", "init_status", "init_json_lock",
                        "init_metrics", "subscribing"}

\* C7: a client that connects when a snapshot is stored gets a status message
\* first and then a metrics message carrying the current snapshot, and the
\* handler subscribes to the broadcast channel only after both were sent.
C7_InitialMessagesInOrder ==
    \A s \in Subs :
        LET h == sub[s]
        IN /\ Joining(h) => h.rx = 0
           /\ Len(h.received) >= 1 => h.received[1].type = "status"
           /\ (h.had_data /\ Len(h.received) >= 2) => h.received[2].type = "metrics"
           /\ (h.had_data /\ h.rx > 0) => Len(h.received) >= 2
           /\ h.pc = "init_metrics" =>
                  /\ h.received = <<[type |-> "status"]>>
                  /\ metrics_json.tag = "Some"
                  /\ h.out = Some(WsMetrics(metrics_json.v))

C7_Witness ==
    /\ hist.pre_json.tag = "Some"
    /\ metrics_json # hist.pre_json
    /\ \E s \in Subs :
           /\ sub[s].had_data
           /\ sub[s].pc = "loop"
           /\ sub[s].rx = Len(ws_broadcast) + 1
           /\ sub[s].received = <<[type |-> "status"], WsMetrics(metrics_json.v)>>

\* C8: ws_clients goes up by exactly 1 when a handler completes the handshake,
\* down by exactly 1 when a handler ends (on every exit path), and does not
\* change otherwise.
C8_CounterPerSubscriber ==
    [][/\ \A s \in Subs :
              /\ (~Live(sub[s]) /\ Live(sub'[s])) => ws_clients' = ws_clients + 1
              /\ (Live(sub[s]) /\ ~Live(sub'[s])) => ws_clients' = ws_clients - 1
       /\ (\A s \in Subs : Live(sub[s]) <=> Live(sub'[s])) => ws_clients' = ws_clients
      ]_vars

C8_Witness ==
    /\ sub["c1"].pc = "closed"
    /\ sub["c1"].exit = "forward"
    /\ sub["c2"].pc = "hb_send"
    /\ ws_clients = 1

\* C9: a started collect_metrics call always comes to its end, whatever the
\* WebSocket clients do (a client that never takes the message sent to it
\* included).
C9_CycleCompletes == (pc # "idle") ~> (pc = "idle")

NoSuccessYet == api_status.last_success = None

\* C22 as stated: until the first successful cycle completes metrics_json is
\* None.
C22_NoneUntilFirstSuccess == NoSuccessYet => metrics_json = None

\* C22 as amended: until the first successful cycle stores its snapshot
\* (failed cycles before it included) metrics_json is None, and from the store
\* to the end of that cycle it is the cycle's complete snapshot; the JSON
\* handler answers the "No data yet" object exactly when metrics_json is None
\* and the whole stored snapshot otherwise.
C22_NoDataUntilFirstStore ==
    /\ [](NoSuccessYet =>
             \/ metrics_json = None
             \/ /\ pc \in {"broadcast", "lock_success"}
                /\ metrics_json = cyc.snapshot
                /\ JsonFromOneCycle([snapshot |-> metrics_json.v]))
    /\ [][(http_resp' # http_resp /\ http_resp'.v.format = "json") =>
              http_resp'.v.body = IF metrics_json = None
                                  THEN [error |-> "No data yet"]
                                  ELSE [snapshot |-> metrics_json.v]]_vars

C22_Witness ==
    /\ cycles = 2
    /\ pc = "idle"
    /\ hist.result = "err"
    /\ api_status.total_scrapes = 2
    /\ NoSuccessYet
    /\ metrics_json = None
    /\ http_resp = Some([format |-> "json", body |-> [error |-> "No data yet"]])

\* C23: a connected subscriber whose own sends succeed keeps getting its
\* heartbeats: a heartbeat whose tick has fired is built from the current
\* api_status and ws_clients and handed to the send, whether or not a cycle
\* ever publishes.
C23_HeartbeatKeepsComing ==
    (sub["c1"].pc = "hb_lock") ~> (sub["c1"].pc = "hb_send")

\* p is a substring of name (or equal to it).
Occurs(p, name) ==
    \E u, v \in Strs(MaxNameLen) : u \o p \o v = name

\* The positions of the configured groups one of whose patterns occurs in name.
MatchingGroups(name) ==
    {i \in DOMAIN service_groups :
        \E j \in DOMAIN service_groups[i].patterns :
            Occurs(service_groups[i].patterns[j], name)}

\* The group of the claim: the first matching group, else "ungrouped".
FirstMatch(name) ==
    IF MatchingGroups(name) = {} THEN "ungrouped"
    ELSE service_groups[CHOOSE i \in MatchingGroups(name) :
                           \A k \in MatchingGroups(name) : i <= k].group

\* C24 as stated: the group of a service is the first configured group, in
\* the map's iteration order, one of whose patterns is a substring of the
\* name, and it is "ungrouped" if and only if no configured pattern matches.
C24_GroupIsFirstMatch ==
    grouped.tag = "Some" =>
        /\ grouped.v.group = FirstMatch(grouped.v.name)
        /\ grouped.v.group = "ungrouped" <=> MatchingGroups(grouped.v.name) = {}

\* C24 as amended: the group is the first matching configured group, and
\* "ungrouped" when no pattern matches; it is "ungrouped" only if no pattern
\* matches or the first matching group is itself named "ungrouped".
C24_GroupIsFirstMatchOrDefault ==
    grouped.tag = "Some" =>
        /\ grouped.v.group = FirstMatch(grouped.v.name)
        /\ MatchingGroups(grouped.v.name) = {} => grouped.v.group = "ungrouped"
        /\ grouped.v.group = "ungrouped" =>
               \/ MatchingGroups(grouped.v.name) = {}
               \/ \E i \in MatchingGroups(grouped.v.name) :
                      /\ service_groups[i].group = "ungrouped"
                      /\ \A k \in MatchingGroups(grouped.v.name) : i <= k

C24_Witness ==
    /\ service_groups = <<[group |-> "db", patterns |-> << <<"a", "a">>, <<"b">> >>],
                          [group |-> "web", patterns |-> << <<"a">>, <<"a", "b">> >>]>>
    /\ grouped = Some([name |-> <<"a", "b">>, group |-> "db"])

\* HOBBY_PRICES and PRO_PRICES: the default price of a measurement under a
\* plan, 0 for a measurement the table does not list; every plan but "pro" has
\* the hobby prices.
PlanPrice(plan, m) ==
    LET pro == [k \in Measurements |->
                   CASE k = "CPU_USAGE" -> 231 [] k = "MEMORY_USAGE_GB" -> 116
                     [] k = "DISK_USAGE_GB" -> 21 [] OTHER -> 100000]
        hobby == [k \in Measurements |->
                     CASE k = "CPU_USAGE" -> 463 [] k = "MEMORY_USAGE_GB" -> 231
                       [] k = "DISK_USAGE_GB" -> 21 [] OTHER -> 100000]
    IN IF m \notin Measurements THEN 0
       ELSE IF plan = "pro" THEN pro[m] ELSE hobby[m]

\* The price the claim gives a measurement under the PricingConfig p.
ClaimedPrice(p, m) ==
    IF m \in DOMAIN p.overrides THEN p.overrides[m] ELSE PlanPrice(p.plan, m)

\* The sum over the measurements ms of quantity times claimed price.
RECURSIVE ClaimedCost(_, _, _)
ClaimedCost(p, u, ms) ==
    IF ms = {} THEN 0
    ELSE LET m == CHOOSE x \in ms : TRUE
         IN (IF m \in DOMAIN u THEN u[m] ELSE 0) * ClaimedPrice(p, m)
            + ClaimedCost(p, u, ms \ {m})

\* C25: get_price returns the override of a measurement when one was set and
\* the plan's default otherwise (0 for an unknown measurement); set_price of
\* one measurement changes the price of no other; the cost of a service is the
\* sum over the four measurements of quantity times price, a missing
\* measurement counting 0.
C25_PricesAndCost ==
    /\ [](priced.tag = "Some" =>
             /\ priced.v.op = "get_price" =>
                    priced.v.value = ClaimedPrice(pricing, priced.v.measurement)
             /\ priced.v.op = "cost" =>
                    priced.v.value = ClaimedCost(pricing, priced.v.usage, Measurements))
    /\ [][(priced' # priced /\ priced'.v.op = "set_price") =>
              \A k \in Measurements \cup {"GPU_USAGE"} :
                  PricingGetPrice(pricing', k) =
                      IF k = priced'.v.measurement THEN priced'.v.value
                      ELSE PricingGetPrice(pricing, k)]_vars

C25_Witness ==
    /\ pricing.plan = "pro"
    /\ DOMAIN pricing.overrides = {"CPU_USAGE", "GPU_USAGE"}
    /\ pricing.overrides["CPU_USAGE"] = 300
    /\ priced.tag = "Some"
    /\ priced.v.op = "cost"
    /\ priced.v.usage = m2
    /\ priced.v.value = 10 * 300 + 5 * 116

\* The positions at which a WebSocket handler is suspended on a send to its
\* client.
SendPositions == {"init_status", "init_metrics", "hb_send", "pong_send", "fwd_send"}

\* C26: no task holds the api_status lock or the metrics_json lock while it
\* is suspended on I/O: a handler awaiting a WebSocket send holds no read
\* guard.
C26_NoLockAcrossIo ==
    \A s \in DOMAIN sub :
        sub[s].pc \in SendPositions => s \notin api_readers \cup json_readers

\* C27: total_scrapes, failed_scrapes and last_error are updated together:
\* once the project fetch of a cycle has failed, a status message a reader of
\* api_status has built that shows the cycle's total_scrapes increment shows
\* its failed_scrapes increment and its last_error as well.
C27_CountersUpdatedTogether ==
    \A s \in DOMAIN sub :
        (/\ cyc.err.tag = "Some"
         /\ sub[s].out.tag = "Some"
         /\ sub[s].out.v.type = "status"
         /\ sub[s].out.v.data.api.total_scrapes = hist.pre_total + 1)
        => /\ sub[s].out.v.data.api.failed_scrapes = hist.pre_failed + 1
           /\ sub[s].out.v.data.api.last_error = Some(ErrToString(cyc.err.v))

\* The Receiver of slot s has more than the channel's capacity of unread
\* messages.
Lagging(s) == sub[s].rx > 0 /\ Len(ws_broadcast) - (sub[s].rx - 1) > BroadcastCapacity

\* C28: a subscriber that fell behind the channel's 16 messages is dropped
\* when it receives: its handler exits and decrements ws_clients once, and it
\* is forwarded nothing; a Receiver starts at the subscription point, moves
\* by one message at a time, each message it passes being the one forwarded,
\* and ends only with its handler.
C28_LaggingSubscriberDropped ==
    [][\A s \in DOMAIN sub :
          /\ (Lagging(s) /\ sub[s].pc = "loop" /\ sub'[s].rx # sub[s].rx) =>
                 /\ sub'[s].pc = "closed"
                 /\ sub'[s].exit \in {"recv_err", "close"}
                 /\ ws_clients' = ws_clients - 1
          /\ (sub[s].pc # "closed" /\ sub'[s].exit = "recv_err") =>
                 /\ Lagging(s)
                 /\ ws_clients' = ws_clients - 1
          /\ (Lagging(s) /\ sub[s].pc = "loop") => sub'[s].pc # "fwd_send"
          /\ sub'[s].rx # sub[s].rx =>
                 \/ /\ sub[s].rx = 0
                    /\ sub'[s].rx = Len(ws_broadcast) + 1
                 \/ /\ sub[s].rx > 0
                    /\ sub'[s].rx = sub[s].rx + 1
                    /\ sub'[s].pc = "fwd_send"
                    /\ sub'[s].out = Some(ws_broadcast[sub[s].rx])
                 \/ /\ sub[s].rx > 0
                    /\ sub'[s].rx = 0
                    /\ sub'[s].pc = "closed"
                    /\ ws_clients' = ws_clients - 1
          /\ (sub[s].pc # "fwd_send" /\ sub'[s].pc = "fwd_send") =>
                 sub'[s].rx = sub[s].rx + 1]_vars

C28_Witness ==
    /\ Len(ws_broadcast) > BroadcastCapacity
    /\ sub["c1"].exit = "recv_err"
    /\ sub["c1"].pc = "closed"
    /\ ws_clients = 0

\* How far into collect_metrics a position is.
Rank(p) ==
    CASE p = "idle" -> 0
      [] p = "lock_total" -> 1
      [] p = "fetch_project" -> 2
      [] p = "lock_failed" -> 3
      [] p = "fetch_usage" -> 3
      [] p = "fetch_estimate" -> 4
      [] p = "lock_json" -> 5
      [] p = "broadcast" -> 6
      [] p = "lock_success" -> 7

\* C29: within one cycle the fetches happen in the order project, usage,
\* estimate, each at most once: a cycle only moves forward or ends, the usage
\* fetch is begun only by a successful project fetch, the estimate fetch only
\* by a successful usage fetch, and the snapshot is stored only after the
\* estimate fetch succeeded and built it.
C29_FetchOrder ==
    [][/\ pc' # pc =>
             \/ pc = "idle" /\ pc' = "lock_total" /\ cycles' = cycles + 1
             \/ pc # "idle" /\ cycles' = cycles
                   /\ (pc' = "idle" \/ Rank(pc') > Rank(pc))
       /\ (pc' # pc /\ pc' = "fetch_project") => pc = "lock_total"
       /\ (pc' # pc /\ pc' = "fetch_usage") =>
             /\ pc = "fetch_project"
             /\ cyc'.err.tag = "None"
             /\ gauges'.api_up = Some(1)
       /\ (pc' # pc /\ pc' = "fetch_estimate") =>
             /\ pc = "fetch_usage"
             /\ cyc'.err.tag = "None"
       /\ (pc' # pc /\ pc' = "lock_json") =>
             /\ pc = "fetch_estimate"
             /\ cyc'.snapshot.tag = "Some"
       /\ metrics_json' # metrics_json =>
             /\ pc = "lock_json"
             /\ metrics_json' = cyc.snapshot
             /\ cyc.err.tag = "None"]_vars

C29_Witness ==
    /\ cycles = 2
    /\ pc = "broadcast"
    /\ api_status.failed_scrapes = 1
    /\ metrics_json = cyc.snapshot
    /\ hist.pre_json.tag = "None"

\* C30: a successful cycle stores its snapshot and then sends one metrics
\* message made of that snapshot on the broadcast channel, a failed cycle
\* sends none, and a cycle with no subscriber goes on all the same (its
\* message reaches nobody); and when a subscriber has received a broadcast metrics message
\* with timestamp T, metrics_json holds a snapshot with timestamp at least T.
C30_StoredBeforePushed ==
    /\ [](\A s \in DOMAIN sub :
            sub[s].pc = "fwd_send" =>
                /\ metrics_json.tag = "Some"
                /\ metrics_json.v.scrape_timestamp >=
                       sub[s].out.v.data.scrape_timestamp)
    /\ [][ws_broadcast' # ws_broadcast =>
              /\ pc = "broadcast"
              /\ cyc.err.tag = "None"
              /\ metrics_json = cyc.snapshot
              /\ ws_broadcast' = Append(ws_broadcast, WsMetrics(metrics_json.v))]_vars
    /\ [][(pc = "broadcast" /\ pc' # pc) =>
              /\ Len(ws_broadcast') =
                     Len(ws_broadcast) + (IF Receivers = {} THEN 0 ELSE 1)
              /\ pc' = "lock_success"]_vars

\* The service ids of a list of ServiceData.
Ids(data) == {data[i].id : i \in DOMAIN data}

\* C31: the services list is driven by the usage data: the loop over a usage
\* result leaves exactly one entry, with that service's measurements, for
\* each service id of the result, and none for a service of the project's
\* list that has no usage; the snapshot carries the same entries.
C31_UsageDrivesServices ==
    /\ [][(pc = "fetch_usage" /\ pc' = "fetch_estimate") =>
              \E u \in UsageInputs :
                  LET data == cyc'.services_data
                  IN /\ Ids(data) = DOMAIN u
                     /\ Len(data) = Cardinality(DOMAIN u)
                     /\ \A i \in DOMAIN data :
                            /\ data[i].cpu_usage = MGet(u[data[i].id], "CPU_USAGE")
                            /\ data[i].memory_usage = MGet(u[data[i].id], "MEMORY_USAGE_GB")
                     /\ \A k \in DOMAIN cyc.project :
                            cyc.project[k].id \notin DOMAIN u =>
                                cyc.project[k].id \notin Ids(data)]_vars
    /\ [][(pc = "fetch_estimate" /\ pc' = "lock_json") =>
              /\ Len(cyc'.snapshot.v.services) = Len(cyc.services_data)
              /\ \A i \in DOMAIN cyc.services_data :
                     cyc'.snapshot.v.services[i].id = cyc.services_data[i].id]_vars

C31_Witness ==
    /\ pc = "broadcast"
    /\ metrics_json.tag = "Some"
    /\ Len(cyc.project) = 2
    /\ Len(metrics_json.v.services) = 1
    /\ metrics_json.v.services[1].id = "svc1"

\* C32: the cache holds at most one entry for a name, and the content type
\* and bytes of a stored entry never change while the entry remains in the
\* cache, whatever calls for the name overlap.
C32_OneImmutableEntry ==
    /\ [](\A i, j \in DOMAIN icon_cache :
             icon_cache[i].key = icon_cache[j].key => i = j)
    /\ [][\A k \in LruKeys(icon_cache) \cap LruKeys(icon_cache') :
              LruValue(icon_cache', k) = LruValue(icon_cache, k)]_vars

\* The positions of a handler that has read metrics_json for its initial
\* metrics message and released its guards.
PastInitialRead == {"subscribing", "loop", "hb_lock", "hb_send", "pong_send", "fwd_send"}

\* The messages a client got on its connection.
Got(s) == {sub[s].received[i] : i \in DOMAIN sub[s].received}

\* C33: a connected subscriber misses no snapshot: when the Collector sends
\* a snapshot on the broadcast channel, every handler past its initial read
\* either holds a Receiver, which gets the message, or has sent this snapshot
\* to its client as the initial metrics message.
C33_NoSnapshotMissed ==
    [][(pc = "broadcast" /\ pc' = "lock_success") =>
          \A s \in DOMAIN sub :
              sub[s].pc \in PastInitialRead =>
                  \/ sub[s].rx > 0
                  \/ WsMetrics(cyc.snapshot.v) \in Got(s)]_vars

\* C34: a subscriber never receives the same snapshot twice. While the first
\* cycle is the only one started, its snapshot is the only one there is: a
\* handler that forwards a broadcast metrics message then has not sent a
\* metrics message to its client before.
C34_NoSnapshotTwice ==
    \A s \in DOMAIN sub :
        (cycles = 1 /\ sub[s].pc = "fwd_send") =>
            \A m \in Got(s) : m.type # "metrics"

\* The positions at which a task waits for a lock.
LockWaits == {"lock_total", "lock_failed", "lock_json", "lock_success"}
GuardWaits == {"init_lock", "init_json_lock", "hb_lock"}

GaugeValues(d) ==
    [cpu_usage |-> d.cpu_usage, memory_usage |-> d.memory_usage,
     disk_usage |-> d.disk_usage, network_tx |-> d.network_tx,
     service_cost |-> d.cost_usd]

\* C36: after every successful cycle the per-service series of /metrics are
\* exactly the services of the snapshot the cycle published, with the
\* snapshot's values: no series of an earlier cycle is left, and the estimate
\* series carry the snapshot's estimates.
C36_GaugesAgreeWithSnapshot ==
    (pc = "idle" /\ hist.result = "ok") =>
        LET data == metrics_json.v.services
            labels == {Labels(data[i]) : i \in DOMAIN data}
        IN /\ DOMAIN Encode(gauges).service = labels
           /\ DOMAIN Encode(gauges).service_estimated_monthly = labels
           /\ \A i \in DOMAIN data :
                 /\ Encode(gauges).service[Labels(data[i])] = GaugeValues(data[i])
                 /\ Encode(gauges).service_estimated_monthly[Labels(data[i])]
                        = data[i].estimated_monthly_usd

\* ------------------------------------------------- the subscriber counter

\* The handler tasks past the handshake and not yet ended.
LiveHandlers == {s \in Subs : Live(sub[s])}

\* C37: ws_clients is the number of handlers that completed the handshake
\* and have not ended; ws_client_disconnect never runs at 0 (the counter never
\* wraps), and a failed handshake leaves the counter as it is.
C37_CounterIsLiveHandlers ==
    /\ [](ws_clients = Cardinality(LiveHandlers) /\ ws_clients >= 0)
    /\ [][\A s \in Subs :
              /\ (Live(sub[s]) /\ ~Live(sub'[s])) => ws_clients > 0
              /\ (sub[s].pc = "handshake" /\ sub'[s].pc = "closed")
                     => ws_clients' = ws_clients
         ]_vars

\* One handler has ended on a Close frame, the other is in its loop.
C37_Witness ==
    /\ sub["c1"].pc = "closed"
    /\ sub["c1"].exit = "close"
    /\ sub["c2"].pc = "loop"
    /\ ws_clients = 1

\* --------------------------------------------------- the status over time

\* C38: failed_scrapes <= total_scrapes in every state; neither counter
\* decreases; metrics_json never goes from Some back to None; last_success
\* changes only when a cycle succeeds, to that cycle's timestamp, and a cycle
\* that fails leaves it as it was.
C38_StatusMonotone ==
    /\ [](api_status.failed_scrapes <= api_status.total_scrapes)
    /\ [][/\ api_status'.total_scrapes >= api_status.total_scrapes
          /\ api_status'.failed_scrapes >= api_status.failed_scrapes
          /\ metrics_json.tag = "Some" => metrics_json'.tag = "Some"
          /\ api_status'.last_success # api_status.last_success =>
                 /\ pc = "lock_success"
                 /\ hist'.result = "ok"
                 /\ api_status'.last_success = Some(cyc.snapshot.v.scrape_timestamp)
          /\ (hist.result = "running" /\ hist'.result = "err") =>
                 api_status'.last_success = api_status.last_success
         ]_vars

\* A cycle has failed at get_project after an earlier cycle succeeded.
C38_Witness ==
    /\ pc = "idle"
    /\ hist.result = "err"
    /\ hist.site = "project"
    /\ api_status.total_scrapes = 2
    /\ api_status.failed_scrapes = 1
    /\ api_status.last_success.tag = "Some"
    /\ metrics_json.tag = "Some"

\* ------------------------------------------------ status and the snapshot

\* The cycle that stored the visible snapshot has not yet recorded its
\* success: it is at the broadcast or waits for api_status.write().
StoredNotRecorded ==
    /\ pc \in {"broadcast", "lock_success"}
    /\ cyc.snapshot = metrics_json

\* C39 as stated: in every state, if metrics_json holds a snapshot with
\* scrape_timestamp T then last_success is Some and at least T, and last_error
\* is None while no later cycle can have failed (the storing cycle still runs).
C39_StatusNotBehindSnapshot ==
    metrics_json.tag = "Some" =>
        /\ api_status.last_success.tag = "Some"
        /\ api_status.last_success.v >= metrics_json.v.scrape_timestamp
        /\ StoredNotRecorded => api_status.last_error.tag = "None"

\* C39, amended: the status catches up with the visible snapshot when the
\* storing cycle records its success. If metrics_json holds a snapshot with
\* scrape_timestamp T then either the storing cycle is still between its store
\* and its status update, or last_success is Some(T); last_error is None when
\* a cycle has just succeeded and is set again only by a cycle failing at
\* get_project.
C39_StatusCatchesUp ==
    /\ [](metrics_json.tag = "Some" =>
             \/ StoredNotRecorded
             \/ api_status.last_success = Some(metrics_json.v.scrape_timestamp))
    /\ []((pc = "idle" /\ hist.result = "ok") => api_status.last_error.tag = "None")
    /\ [][(api_status.last_error.tag = "None" /\ api_status'.last_error.tag = "Some")
              => (pc = "lock_failed" /\ hist'.site = "project")]_vars

\* After a cycle failed at get_project, the next cycle has stored its snapshot
\* and not yet recorded its success: the status still shows the old error.
C39_Witness ==
    /\ StoredNotRecorded
    /\ pc = "lock_success"
    /\ api_status.last_success.tag = "None"
    /\ api_status.last_error.tag = "Some"


====
